---- MODULE Spec2Model ----
(***************************************************************************)
(* Model of the signal pipeline of tradincode-worker:                      *)
(*   - the convergence aggregator (strategies/convergent-signals.js),      *)
(*   - the generator fan-out calculateAllSignals (indicators/index.js),    *)
(*   - the Heikin-Ashi crossover generator (indicators/heikin-ashi.js),    *)
(*   - the Lupown (Sommi) generator's flag/diamond decision                *)
(*     (indicators/lupown.js),                                             *)
(*   - the series primitives (indicators/utils.js),                        *)
(*   - the order-block detector (indicators/order-blocks.js),              *)
(*   - the divergence detector (indicators/divergences.js),                *)
(*   - the whale detector (indicators/whale-detector.js),                  *)
(*   - the TL signals generator (ADX, momentum and pivots),                *)
(*   - the multi-account trading cycle (multi-account-trading.js).         *)
(*                                                                         *)
(* Numbers.  Scores and weights are JavaScript doubles with one decimal;   *)
(* they are kept here as integers counting tenths.  A confidence of c per  *)
(* cent is kept as the integer c * ConfUnit, ConfUnit = 35, so that the    *)
(* division by 7 and the factor 0.8 of the code are exact.  Prices and the *)
(* series derived from them are fixed-point integers with PriceScale units *)
(* per price unit; a division rounds down where the quotient is not a      *)
(* multiple of 1/PriceScale.                                               *)
(***************************************************************************)
EXTENDS Integers, Sequences, FiniteSets, TLC

VARIABLES
    \* --- calculateConvergentSignal -------------------------------------
    signals,        \* the seven generators' outputs for the candle window
    config,         \* the strategy configuration of the call
    convPc,         \* "call" before the call, "done" after it returned
    convResult,     \* the record the call returned
    \* --- calculateAllSignals -------------------------------------------
    allPc,          \* position inside calculateAllSignals
    candleCount,    \* candles.length of the window handed to the call
    enabled,        \* generators whose use... option is true
    cfgNull,        \* generators whose ...Config option is null
    results,        \* the results record being filled
    promises,       \* state of each generator's promise
    genIdx,         \* position in Generators of the next block to run
    \* --- calculateHeikinAshiSignals over an expanding window -----------
    candles,        \* the candle window, oldest first
    emaLength,      \* the generator's EMA period
    haResult,       \* result of the evaluation over the current window
    haPrevSignal,   \* signal of the evaluation over the previous window
    \* --- calculateLupownSignals ----------------------------------------
    lupIn,          \* oscillator series and thresholds of the call
    lupPc,          \* "call" before the call, "done" after it returned
    lupResult,      \* the record the call returned
    \* --- one generator stage or series primitive called on its own ----
    genIn,          \* the arguments of the call
    genPc,          \* "call" before the call, "done" after it returned
    genOut          \* what the call returned

vars == <<signals, config, convPc, convResult,
          allPc, candleCount, enabled, cfgNull, results, promises, genIdx,
          candles, emaLength, haResult, haPrevSignal,
          lupIn, lupPc, lupResult,
          genIn, genPc, genOut>>

convVars == <<signals, config, convPc, convResult>>
allVars  == <<allPc, candleCount, enabled, cfgNull, results, promises, genIdx>>
haVars   == <<candles, emaLength, haResult, haPrevSignal>>
lupVars  == <<lupIn, lupPc, lupResult>>
genVars  == <<genIn, genPc, genOut>>

Min(a, b) == IF a <= b THEN a ELSE b
Max(a, b) == IF a >= b THEN a ELSE b

(***************************************************************************)
(* The seven generators, in the order calculateAllSignals runs them.       *)
(***************************************************************************)
Generators == <<"heikinAshi", "tlSignals", "koncorde", "lupown",
                "whales", "divergences", "orderBlocks">>

GenNames == {Generators[i] : i \in 1..Len(Generators)}

NumIndicators == 7

(***************************************************************************)
(* calculateConvergence                                                    *)
(***************************************************************************)
\* Default weights of calculateConvergence, in tenths.
DefaultWeights ==
    [heikinAshi |-> 10, tlSignals |-> 10, koncorde |-> 10, lupown |-> 12,
     whales |-> 8, divergences |-> 10, orderBlocks |-> 11]

DiamondBonus == 5

RegularDivergenceBonus == 3

\* Contribution of one plain generator (Heikin Ashi, TL, Koncorde, Whale
\* Detector, Order Blocks) to the score and the indicator list of `side`.
PlainScore(sig, w, side) == IF sig.signal = side THEN w ELSE 0

PlainCount(sig, side) == IF sig.signal = side THEN 1 ELSE 0

\* Lupown: base weight, plus 0.5 and a second list entry for a diamond of
\* the same direction as the signal.
DiamondOf(side) == IF side = "BUY" THEN "BULLISH" ELSE "BEARISH"

LupownScore(sig, w, side) ==
    IF sig.signal = side
    THEN w + (IF sig.diamond = DiamondOf(side) THEN DiamondBonus ELSE 0)
    ELSE 0

LupownCount(sig, side) ==
    IF sig.signal = side
    THEN 1 + (IF sig.diamond = DiamondOf(side) THEN 1 ELSE 0)
    ELSE 0

\* Variant: a regular divergence earns no bonus.
DivergenceScore_NoBonus(sig, w, side) == IF sig.signal = side THEN w ELSE 0

\* Divergences: base weight, plus 0.3 for a regular divergence of the same
\* direction (no extra list entry).
DivergenceScore(sig, w, side) ==
    IF sig.signal = side
    THEN w + (IF (IF side = "BUY" THEN sig.regularBullish
                                  ELSE sig.regularBearish)
              THEN RegularDivergenceBonus ELSE 0)
    ELSE 0

\* Variant: the order-block contribution is left out of the score.
Score_NoOrderBlocks(s, w, side) ==
      PlainScore(s.heikinAshi, w.heikinAshi, side)
    + PlainScore(s.tlSignals, w.tlSignals, side)
    + PlainScore(s.koncorde, w.koncorde, side)
    + LupownScore(s.lupown, w.lupown, side)
    + PlainScore(s.whales, w.whales, side)
    + DivergenceScore(s.divergences, w.divergences, side)

Score(s, w, side) ==
      PlainScore(s.heikinAshi, w.heikinAshi, side)
    + PlainScore(s.tlSignals, w.tlSignals, side)
    + PlainScore(s.koncorde, w.koncorde, side)
    + LupownScore(s.lupown, w.lupown, side)
    + PlainScore(s.whales, w.whales, side)
    + DivergenceScore(s.divergences, w.divergences, side)
    + PlainScore(s.orderBlocks, w.orderBlocks, side)

IndicatorCount(s, side) ==
      PlainCount(s.heikinAshi, side)
    + PlainCount(s.tlSignals, side)
    + PlainCount(s.koncorde, side)
    + LupownCount(s.lupown, side)
    + PlainCount(s.whales, side)
    + PlainCount(s.divergences, side)
    + PlainCount(s.orderBlocks, side)

calculateConvergence(s, cfg) ==
    [buyScore  |-> Score(s, cfg.weights, "BUY"),
     sellScore |-> Score(s, cfg.weights, "SELL"),
     buyCount  |-> IndicatorCount(s, "BUY"),
     sellCount |-> IndicatorCount(s, "SELL"),
     convergenceThreshold |-> cfg.requiredConvergence]

(***************************************************************************)
(* checkConflicts                                                          *)
(***************************************************************************)
\* Variant: Lupown is not consulted by the order-block conflict rules.
TrendSays_NoLupown(s, side) ==
    \/ s.heikinAshi.signal = side
    \/ s.tlSignals.signal = side

TrendSays(s, side) ==
    \/ s.heikinAshi.signal = side
    \/ s.tlSignals.signal = side
    \/ s.lupown.signal = side

checkConflicts(s) ==
    \/ s.orderBlocks.signal = "SELL" /\ TrendSays(s, "BUY")
    \/ s.orderBlocks.signal = "BUY" /\ TrendSays(s, "SELL")
    \/ s.whales.whaleType = "DISTRIBUTION" /\ s.heikinAshi.signal = "BUY"
    \/ s.whales.whaleType = "ACCUMULATION" /\ s.heikinAshi.signal = "SELL"

(***************************************************************************)
(* calculateConvergentSignal                                               *)
(***************************************************************************)
ConfUnit == NumIndicators * 5

FullConfidence == 100 * ConfUnit

\* Variant: the cap at 100 is missing.
WeightedConfidence_NoCap(score) == (score * 10 * ConfUnit) \div NumIndicators

\* Math.min(100, (score / 7) * 100), score in tenths, result in ConfUnit.
WeightedConfidence(score) ==
    Min(FullConfidence, (score * 10 * ConfUnit) \div NumIndicators)

\* (count / 7) * 100, result in ConfUnit.
CountConfidence(count) == (count * 100 * ConfUnit) \div NumIndicators

\* Variant: a tie of the two scores is decided for BUY.
WeightedDecision_TieBuys(conv, minScore) ==
    IF conv.buyScore >= minScore /\ conv.buyScore >= conv.sellScore
    THEN [signal |-> "BUY", confidence |-> WeightedConfidence(conv.buyScore)]
    ELSE IF conv.sellScore >= minScore /\ conv.sellScore > conv.buyScore
    THEN [signal |-> "SELL", confidence |-> WeightedConfidence(conv.sellScore)]
    ELSE [signal |-> "NONE", confidence |-> 0]

\* The weighted branch: thresholds and scores are in tenths.
WeightedDecision(conv, minScore) ==
    IF conv.buyScore >= minScore /\ conv.buyScore > conv.sellScore
    THEN [signal |-> "BUY", confidence |-> WeightedConfidence(conv.buyScore)]
    ELSE IF conv.sellScore >= minScore /\ conv.sellScore > conv.buyScore
    THEN [signal |-> "SELL", confidence |-> WeightedConfidence(conv.sellScore)]
    ELSE [signal |-> "NONE", confidence |-> 0]

\* Variant: a tie of the two counts is decided for BUY.
CountDecision_TieBuys(conv, required) ==
    IF conv.buyCount * 10 >= required /\ conv.buyCount >= conv.sellCount
    THEN [signal |-> "BUY", confidence |-> CountConfidence(conv.buyCount)]
    ELSE IF conv.sellCount * 10 >= required /\ conv.sellCount > conv.buyCount
    THEN [signal |-> "SELL", confidence |-> CountConfidence(conv.sellCount)]
    ELSE [signal |-> "NONE", confidence |-> 0]

\* The count-based branch: requiredConvergence (tenths) against whole counts.
CountDecision(conv, required) ==
    IF conv.buyCount * 10 >= required /\ conv.buyCount > conv.sellCount
    THEN [signal |-> "BUY", confidence |-> CountConfidence(conv.buyCount)]
    ELSE IF conv.sellCount * 10 >= required /\ conv.sellCount > conv.buyCount
    THEN [signal |-> "SELL", confidence |-> CountConfidence(conv.sellCount)]
    ELSE [signal |-> "NONE", confidence |-> 0]

\* confidence *= 0.8 when there are conflicts and a signal.
PenaltyApplies(hasConflicts, signal) == hasConflicts /\ signal # "NONE"

ApplyPenalty(confidence) == (confidence * 4) \div 5

calculateConvergentSignal(s, cfg) ==
    LET conv == calculateConvergence(s, cfg)
        hasConflicts == IF cfg.checkConflictsEnabled THEN checkConflicts(s)
                                                     ELSE FALSE
        d == IF cfg.useWeights
             THEN WeightedDecision(conv, cfg.requiredConvergence)
             ELSE CountDecision(conv, cfg.requiredConvergence)
        penalized == PenaltyApplies(hasConflicts, d.signal)
    IN  [signal |-> d.signal,
         confidence |-> IF penalized THEN ApplyPenalty(d.confidence)
                                     ELSE d.confidence,
         rawConfidence |-> d.confidence,
         penalized |-> penalized,
         convergence |-> conv,
         hasConflicts |-> hasConflicts]

(***************************************************************************)
(* Inputs of calculateConvergentSignal: what the generators can hand to    *)
(* the aggregator, and the configurations explored.  "NONE" stands for a   *)
(* generator that returned null or a record whose signal is null.          *)
(***************************************************************************)
PlainOutputs == {[signal |-> x] : x \in {"NONE", "BUY", "SELL"}}

\* calculateLupownSignals: BUY comes with a bullish diamond, with a bullish
\* flag and no diamond, or with a bullish flag next to a bearish diamond;
\* SELL comes with a bearish diamond or with a bearish flag alone.
LupownOutputs ==
    {[signal |-> "NONE", diamond |-> "NONE"],
     [signal |-> "BUY",  diamond |-> "BULLISH"],
     [signal |-> "BUY",  diamond |-> "NONE"],
     [signal |-> "BUY",  diamond |-> "BEARISH"],
     [signal |-> "SELL", diamond |-> "BEARISH"],
     [signal |-> "SELL", diamond |-> "NONE"]}

\* detectWhales: BUY is ACCUMULATION, SELL is DISTRIBUTION.
WhaleOutputs ==
    {[signal |-> "NONE", whaleType |-> "NONE"],
     [signal |-> "BUY",  whaleType |-> "ACCUMULATION"],
     [signal |-> "SELL", whaleType |-> "DISTRIBUTION"]}

\* detectDivergences: BUY iff a recent regular bullish divergence exists,
\* SELL iff none does and a recent regular bearish one exists.
DivergenceOutputs ==
    {[signal |-> "NONE", regularBullish |-> FALSE, regularBearish |-> FALSE],
     [signal |-> "BUY",  regularBullish |-> TRUE,  regularBearish |-> FALSE],
     [signal |-> "BUY",  regularBullish |-> TRUE,  regularBearish |-> TRUE],
     [signal |-> "SELL", regularBullish |-> FALSE, regularBearish |-> TRUE]}

SignalRecords ==
    [heikinAshi : PlainOutputs, tlSignals : PlainOutputs,
     koncorde : PlainOutputs, lupown : LupownOutputs, whales : WhaleOutputs,
     divergences : DivergenceOutputs, orderBlocks : PlainOutputs]

EqualWeights(w) == [g \in GenNames |-> w]

\* Common values tried for configurations whose seven weights are equal.
EqualWeightValues == {5, 10, 20}

WeightConfigs == {DefaultWeights} \cup {EqualWeights(w) : w \in EqualWeightValues}

DefaultRequiredConvergence == 20

\* Thresholds tried, in tenths: negative, zero, the default 2, and 8.
RequiredConvergences == {0 - 10, 0, DefaultRequiredConvergence, 80}

Configs ==
    [requiredConvergence : RequiredConvergences, useWeights : BOOLEAN,
     checkConflictsEnabled : BOOLEAN, weights : WeightConfigs]

NoResult ==
    [signal |-> "NONE", confidence |-> 0, rawConfidence |-> 0,
     penalized |-> FALSE,
     convergence |-> [buyScore |-> 0, sellScore |-> 0, buyCount |-> 0,
                      sellCount |-> 0, convergenceThreshold |-> 0],
     hasConflicts |-> FALSE]

(***************************************************************************)
(* Values of the variables of a component that a specification leaves      *)
(* idle.                                                                   *)
(***************************************************************************)
AllNone ==
    [heikinAshi |-> [signal |-> "NONE"], tlSignals |-> [signal |-> "NONE"],
     koncorde |-> [signal |-> "NONE"],
     lupown |-> [signal |-> "NONE", diamond |-> "NONE"],
     whales |-> [signal |-> "NONE", whaleType |-> "NONE"],
     divergences |-> [signal |-> "NONE", regularBullish |-> FALSE,
                      regularBearish |-> FALSE],
     orderBlocks |-> [signal |-> "NONE"]]

DefaultConfig ==
    [requiredConvergence |-> DefaultRequiredConvergence, useWeights |-> TRUE,
     checkConflictsEnabled |-> TRUE, weights |-> DefaultWeights]

ConvIdle ==
    /\ signals = AllNone
    /\ config = DefaultConfig
    /\ convPc = "idle"
    /\ convResult = NoResult

(***************************************************************************)
(* Specification of the aggregator: one call of calculateConvergentSignal  *)
(* over a non-empty candle window whose generator outputs are `signals`.   *)
(***************************************************************************)
ConvInit ==
    /\ signals \in SignalRecords
    /\ config \in Configs
    /\ convPc = "call"
    /\ convResult = NoResult

CalculateConvergentSignal ==
    /\ convPc = "call"
    /\ convResult' = calculateConvergentSignal(signals, config)
    /\ convPc' = "done"
    /\ UNCHANGED <<signals, config>>

AllIdle ==
    /\ allPc = "idle"
    /\ candleCount = 0
    /\ enabled = {}
    /\ cfgNull = {}
    /\ results = [g \in GenNames |-> "null"]
    /\ promises = [g \in GenNames |-> "none"]
    /\ genIdx = 0

HaIdle ==
    /\ candles = <<>>
    /\ emaLength = 1
    /\ haResult = [returned |-> "null"]
    /\ haPrevSignal = "idle"

LupIdle ==
    /\ lupIn = [idle |-> TRUE]
    /\ lupPc = "idle"
    /\ lupResult = [returned |-> "null"]

GenIdle ==
    /\ genIn = [idle |-> TRUE]
    /\ genPc = "idle"
    /\ genOut = [returned |-> "null"]

SpecConvInit == ConvInit /\ AllIdle /\ HaIdle /\ LupIdle /\ GenIdle

SpecConvNext == CalculateConvergentSignal /\ UNCHANGED <<allVars, haVars, lupVars, genVars>>

SpecConv == SpecConvInit /\ [][SpecConvNext]_vars

(***************************************************************************)
(* Properties of the aggregator (specification SpecConv).                  *)
(***************************************************************************)
ConvDone == convPc = "done"

BuyScoreOf == convResult.convergence.buyScore
SellScoreOf == convResult.convergence.sellScore

WinningScore ==
    IF convResult.signal = "BUY" THEN BuyScoreOf ELSE SellScoreOf

SumOfWeights ==
      config.weights.heikinAshi + config.weights.tlSignals
    + config.weights.koncorde + config.weights.lupown
    + config.weights.whales + config.weights.divergences
    + config.weights.orderBlocks

\* C1: in weighted mode the aggregate signal is BUY iff buyScore reaches the
\* threshold and strictly exceeds sellScore, SELL iff sellScore reaches the
\* threshold and strictly exceeds buyScore, and None otherwise (so ties and
\* sub-threshold scores give None).
C1_WeightedSignal ==
    (ConvDone /\ config.useWeights) =>
        /\ convResult.signal = "BUY" <=>
               (BuyScoreOf >= config.requiredConvergence /\ BuyScoreOf > SellScoreOf)
        /\ convResult.signal = "SELL" <=>
               (SellScoreOf >= config.requiredConvergence /\ SellScoreOf > BuyScoreOf)
        /\ convResult.signal \in {"BUY", "SELL", "NONE"}

\* A tie of two positive scores above the threshold, answered by None.
C1_Witness ==
    /\ ConvDone /\ config.useWeights
    /\ BuyScoreOf = SellScoreOf /\ BuyScoreOf >= config.requiredConvergence
    /\ BuyScoreOf > 0
    /\ convResult.signal = "NONE"

\* C2 as stated: whenever the weighted aggregate is BUY or SELL, the
\* confidence before the penalty is min(100, 100 * winningScore / S) with S
\* the sum of the seven configured weights.
C2_Original ==
    (ConvDone /\ config.useWeights /\ convResult.signal # "NONE") =>
        convResult.rawConfidence * SumOfWeights =
            Min(FullConfidence * SumOfWeights, FullConfidence * WinningScore)

\* C2 as amended: whenever the weighted aggregate is BUY or SELL, the
\* confidence before the penalty is min(100, 100 * winningScore / 7): the
\* divisor is the fixed number of indicators, whatever the weights are.
C2_Amended ==
    (ConvDone /\ config.useWeights /\ convResult.signal # "NONE") =>
        convResult.rawConfidence * (10 * NumIndicators) =
            Min(FullConfidence * (10 * NumIndicators), FullConfidence * WinningScore)

\* A signal under weights that do not sum to 7, with an uncapped confidence,
\* and one whose score exceeds 7 and is capped.
C2_Witness ==
    /\ ConvDone /\ config.useWeights /\ convResult.signal = "BUY"
    /\ SumOfWeights # 10 * NumIndicators
    /\ \/ WinningScore < 10 * NumIndicators
       \/ WinningScore > 10 * NumIndicators

Opposite(side) == IF side = "BUY" THEN "SELL" ELSE "BUY"

\* A conflict that contradicts the side the aggregate decided for.
ContradictsWinner ==
    \/ signals.orderBlocks.signal = Opposite(convResult.signal)
    \/ signals.whales.whaleType = "DISTRIBUTION" /\ convResult.signal = "BUY"
    \/ signals.whales.whaleType = "ACCUMULATION" /\ convResult.signal = "SELL"

\* C3 as stated: the penalty is applied only when an order block or a whale
\* signal contradicts the winning side; otherwise confidence is unreduced.
C3_Original ==
    (ConvDone /\ convResult.signal # "NONE" /\ ~ContradictsWinner) =>
        convResult.confidence = convResult.rawConfidence

\* The conflicts as the generators' outputs show them, side by side.
OutputsConflict ==
    \/ /\ signals.orderBlocks.signal = "SELL"
       /\ "BUY" \in {signals.heikinAshi.signal, signals.tlSignals.signal,
                     signals.lupown.signal}
    \/ /\ signals.orderBlocks.signal = "BUY"
       /\ "SELL" \in {signals.heikinAshi.signal, signals.tlSignals.signal,
                      signals.lupown.signal}
    \/ signals.whales.signal = "SELL" /\ signals.heikinAshi.signal = "BUY"
    \/ signals.whales.signal = "BUY" /\ signals.heikinAshi.signal = "SELL"

\* C3 as amended: the penalty (confidence times 0.8) is applied exactly when
\* conflict checking is enabled, the aggregate is BUY or SELL, and the
\* generators' outputs conflict with one another (order blocks against a
\* Heikin-Ashi, TL or Lupown signal, or a whale signal against Heikin-Ashi),
\* whichever side the aggregate is on; otherwise confidence is unreduced.
C3_Amended ==
    ConvDone =>
        IF config.checkConflictsEnabled /\ convResult.signal # "NONE" /\ OutputsConflict
        THEN convResult.confidence * 5 = convResult.rawConfidence * 4
        ELSE convResult.confidence = convResult.rawConfidence

\* A SELL aggregate backed by the order blocks and the whales, penalised
\* because Lupown alone says BUY.
C3_Witness ==
    /\ ConvDone /\ convResult.signal = "SELL"
    /\ signals.orderBlocks.signal = "SELL" /\ signals.whales.signal = "SELL"
    /\ signals.lupown.signal = "BUY"
    /\ signals.heikinAshi.signal = "NONE" /\ signals.tlSignals.signal = "NONE"
    /\ convResult.confidence < convResult.rawConfidence

AllAbsent == \A g \in GenNames : signals[g].signal = "NONE"

\* C4: if all seven generators return None/absent the result is None with
\* confidence 0, for every threshold and in both modes.
C4_AllNone ==
    (ConvDone /\ AllAbsent) =>
        convResult.signal = "NONE" /\ convResult.confidence = 0

\* All absent under a negative threshold, in count-based mode.
C4_Witness ==
    /\ ConvDone /\ AllAbsent
    /\ config.requiredConvergence < 0 /\ ~config.useWeights
    /\ convResult.signal = "NONE"

AllBuy == \A g \in GenNames : signals[g].signal = "BUY"

WeightsEqual ==
    \A g \in GenNames : config.weights[g] = config.weights.heikinAshi

\* C5 as stated: all seven BUY under weights equal to any common positive
\* value give BUY with confidence exactly 100 before the penalty.
C5_Original ==
    (ConvDone /\ config.useWeights /\ AllBuy /\ WeightsEqual
        /\ config.weights.heikinAshi > 0) =>
        convResult.signal = "BUY" /\ convResult.rawConfidence = FullConfidence

\* C5 as amended: all seven BUY under weights equal to a common value of at
\* least 1, with a threshold not above the resulting buy score, give BUY
\* with confidence exactly 100 before the penalty (weighted mode).
C5_Amended ==
    (ConvDone /\ config.useWeights /\ AllBuy /\ WeightsEqual
        /\ config.weights.heikinAshi >= 10
        /\ config.requiredConvergence <= BuyScoreOf) =>
        convResult.signal = "BUY" /\ convResult.rawConfidence = FullConfidence

\* All seven BUY with every weight 1 and no diamond.
C5_Witness ==
    /\ ConvDone /\ config.useWeights /\ AllBuy
    /\ config.weights = EqualWeights(10)
    /\ signals.lupown.diamond = "NONE"
    /\ convResult.rawConfidence = FullConfidence

(***************************************************************************)
(* calculateAllSignals.  The call is followed block by block: the read of  *)
(* the last candle's timestamp, the seven `if (use...) promises.push(...)` *)
(* blocks in source order, and the await of Promise.all.  The body of an   *)
(* async arrow function runs synchronously when the function is invoked;   *)
(* an exception it raises rejects its promise and is not thrown at the     *)
(* caller.  A generator's numeric work is not followed here: past its      *)
(* minimum length it returns a record or, from its own try/catch, null.    *)
(***************************************************************************)
\* Minimum window lengths of the generators under their default options.
HeikinAshiMinRequired == 55 * 6
TLMinRequired == 14 + 10 + 5 + 5
KoncordeMinRequired == Max(Max(255, 255), Max(14, 20)) + 10
LupownMinRequired == Max(Max(10, 21), Max(14, 14)) + 30
WhaleMinRequired == Max(20, 14) + 5
DivergencesMinRequired == 14 + 5 + 5 + 10
OrderBlocksMinRequired == Max(Max(14, 20), 3) + 10

MinRequired ==
    [heikinAshi |-> HeikinAshiMinRequired, tlSignals |-> TLMinRequired,
     koncorde |-> KoncordeMinRequired, lupown |-> LupownMinRequired,
     whales |-> WhaleMinRequired, divergences |-> DivergencesMinRequired,
     orderBlocks |-> OrderBlocksMinRequired]

\* What the evaluation of generator g can come to for a window of n candles:
\* "throw" when its configuration is null (property read or destructuring
\* of null, outside every try block), "null" below the minimum length,
\* "null" or "record" otherwise.
GeneratorOutcomes(g, n, nullCfg) ==
    IF g \in nullCfg THEN {"throw"}
    ELSE IF n < MinRequired[g] THEN {"null"}
    ELSE {"null", "record"}

\* Variant: the exception leaves the chain of blocks for the catch block.
AfterThrow_Abort(i) == Len(Generators) + 1

\* Where calculateAllSignals continues after the body of the async wrapper
\* at position i raised: at the next block.
AfterThrow(i) == i + 1

\* Window lengths tried: empty, one candle, and both sides of every minimum.
CandleCounts ==
    {0, 1} \cup {MinRequired[g] - 1 : g \in GenNames}
           \cup {MinRequired[g] : g \in GenNames}

\* Options tried: every generator enabled, or all but one.
EnabledSets == {GenNames} \cup {GenNames \ {g} : g \in GenNames}

\* Null configurations tried: none, one generator's, or two generators'.
MaxNullConfigs == 2

NullConfigSets == {S \in SUBSET GenNames : Cardinality(S) <= MaxNullConfigs}

AllInit ==
    /\ allPc = "entry"
    /\ candleCount \in CandleCounts
    /\ enabled \in EnabledSets
    /\ cfgNull \in NullConfigSets
    /\ results = [g \in GenNames |-> "null"]
    /\ promises = [g \in GenNames |-> "none"]
    /\ genIdx = 0

\* const results = {..., timestamp: candles[candles.length - 1].timestamp}
\* stands before the try block: on an empty window the property read of
\* undefined throws and the call rejects.
BuildResults ==
    /\ allPc = "entry"
    /\ IF candleCount = 0
       THEN allPc' = "threw" /\ genIdx' = genIdx
       ELSE allPc' = "push" /\ genIdx' = 1
    /\ UNCHANGED <<candleCount, enabled, cfgNull, results, promises>>

\* One `if (useX) { promises.push((async () => { results.x = ... })()) }`.
RunGenerator(g) ==
    /\ allPc = "push"
    /\ genIdx <= Len(Generators)
    /\ g = Generators[genIdx]
    /\ IF g \in enabled
       THEN \E o \in GeneratorOutcomes(g, candleCount, cfgNull) :
              IF o = "throw"
              THEN /\ promises' = [promises EXCEPT ![g] = "rejected"]
                   /\ results' = results
                   /\ genIdx' = AfterThrow(genIdx)
              ELSE /\ promises' = [promises EXCEPT ![g] = "fulfilled"]
                   /\ results' = [results EXCEPT ![g] = o]
                   /\ genIdx' = genIdx + 1
       ELSE /\ genIdx' = genIdx + 1
            /\ UNCHANGED <<results, promises>>
    /\ UNCHANGED <<allPc, candleCount, enabled, cfgNull>>

\* await Promise.all(promises): a rejected promise makes the await throw
\* into the catch block, which returns results as well.
AwaitAll ==
    /\ allPc = "push"
    /\ genIdx > Len(Generators)
    /\ allPc' = IF \E g \in GenNames : promises[g] = "rejected"
                THEN "caught" ELSE "returned"
    /\ UNCHANGED <<candleCount, enabled, cfgNull, results, promises, genIdx>>

AllNext ==
    \/ BuildResults
    \/ \E g \in GenNames : RunGenerator(g)
    \/ AwaitAll

SpecAllInit == AllInit /\ ConvIdle /\ HaIdle /\ LupIdle /\ GenIdle

SpecAllNext == AllNext /\ UNCHANGED <<convVars, haVars, lupVars, genVars>>

SpecAll == SpecAllInit /\ [][SpecAllNext]_vars

(***************************************************************************)
(* Properties of calculateAllSignals (specification SpecAll).              *)
(***************************************************************************)
AllReturned == allPc \in {"returned", "caught"}

AllFinished == allPc \in {"returned", "caught", "threw"}

\* C6: if the evaluation of a generator raises, that generator's entry is
\* absent, the other enabled generators are still evaluated and their
\* entries hold what they returned, and the call returns the record.
C6_Isolation ==
    /\ allPc = "threw" => \A g \in GenNames : promises[g] = "none"
    /\ AllReturned =>
         \A g \in enabled :
            /\ promises[g] \in {"fulfilled", "rejected"}
            /\ promises[g] = "rejected" <=> g \in cfgNull
            /\ promises[g] = "rejected" => results[g] = "null"
            /\ (g \notin cfgNull /\ candleCount < MinRequired[g]) => results[g] = "null"

\* The first generator raised and a later one still delivered a record.
C6_Witness ==
    /\ allPc = "caught"
    /\ promises.heikinAshi = "rejected" /\ results.heikinAshi = "null"
    /\ promises.orderBlocks = "fulfilled" /\ results.orderBlocks = "record"
    /\ promises.whales = "fulfilled" /\ results.whales = "record"

\* C7: insufficient history is never an error: over a window shorter than
\* a generator's minimum, the empty window included, calculateAllSignals
\* returns its record with that generator's entry absent and does not throw.
C7_ShortWindow ==
    (AllFinished /\ \E g \in GenNames : candleCount < MinRequired[g]) =>
        /\ allPc # "threw"
        /\ \A g \in enabled \ cfgNull :
              candleCount < MinRequired[g] =>
                  promises[g] = "fulfilled" /\ results[g] = "null"

(***************************************************************************)
(* Heikin-Ashi crossover generator.                                        *)
(*                                                                         *)
(* A candle carries whole prices; every derived value is a fixed-point     *)
(* integer with PriceScale units per price unit.  Null is the null of a    *)
(* series entry; Num is the conversion JavaScript applies to it inside an  *)
(* arithmetic expression (null becomes 0).                                 *)
(***************************************************************************)
PriceScale == 3 * (2 ^ 14)

Null == 0 - (2 ^ 30)

Num(x) == IF x = Null THEN 0 ELSE x

ohlc4(candle) ==
    ((candle.open + candle.high + candle.low + candle.close) * PriceScale) \div 4

hlc3(candle) ==
    ((candle.high + candle.low + candle.close) * PriceScale) \div 3

RECURSIVE SumFirst(_, _)
\* data[0] + ... + data[k-1] as the loop `sum += data[i]` computes it.
SumFirst(data, k) ==
    IF k = 0 THEN 0 ELSE SumFirst(data, k - 1) + Num(data[k])

\* ema = (data[i] - ema) * multiplier + ema with multiplier = 2 / (period + 1)
EMAStep(x, ema, period) == (((Num(x) - ema) * 2) \div (period + 1)) + ema

RECURSIVE EMARest(_, _, _, _)
\* The loop over data[period..]: emaArray so far, its last entry being the
\* running ema; i is the 1-based position of the next input.
EMARest(data, period, i, emaArray) ==
    IF i > Len(data) THEN emaArray
    ELSE EMARest(data, period, i + 1,
                 Append(emaArray,
                        EMAStep(data[i], emaArray[Len(emaArray)], period)))

\* calculateEMAArray: empty below `period` values, else the SMA of the first
\* `period` values followed by the recurrence (length n - period + 1).
calculateEMAArray(data, period) ==
    IF Len(data) < period THEN <<>>
    ELSE EMARest(data, period, period + 1, <<SumFirst(data, period) \div period>>)

\* The loop that builds tma from the three EMA arrays: 3*EMA1 - 3*EMA2 + EMA3
\* where all three are available, else null.  (SubSeq(f, 1, n) is f itself,
\* written out as an array.)
TMAFrom(n, ema1, ema2, ema3) ==
    IF Len(ema1) = 0 \/ Len(ema2) = 0 \/ Len(ema3) = 0 THEN <<>>
    ELSE SubSeq([i \in 1..n |->
                    IF /\ i - (n - Len(ema1)) >= 1
                       /\ i - (n - Len(ema2)) >= 1
                       /\ i - (n - Len(ema3)) >= 1
                    THEN 3 * ema1[i - (n - Len(ema1))]
                             - 3 * ema2[i - (n - Len(ema2))]
                             + ema3[i - (n - Len(ema3))]
                    ELSE Null], 1, n)

TMAThird(n, ema1, ema2, period) ==
    TMAFrom(n, ema1, ema2, calculateEMAArray(ema2, period))

TMASecond(n, ema1, period) ==
    TMAThird(n, ema1, calculateEMAArray(ema1, period), period)

\* calculateTripleEMA: <<>> stands for the null it returns; otherwise a
\* series as long as `values`, null before all three EMAs are available.
calculateTripleEMA(values, period) ==
    IF Len(values) < period * 3 THEN <<>>
    ELSE TMASecond(Len(values), calculateEMAArray(values, period), period)

RECURSIVE HaOpens(_, _, _)
\* The haOpen values of bars 1..Len(cs): the bar's own OHLC4 for the first
\* bar, else the mean of the bar's own OHLC4 and the previous bar's haOpen.
HaOpens(cs, i, acc) ==
    IF i > Len(cs) THEN acc
    ELSE HaOpens(cs, i + 1,
                 Append(acc, IF i = 1 THEN ohlc4(cs[1])
                             ELSE (ohlc4(cs[i]) + acc[i - 1]) \div 2))

HaClose(candle, haOpen) ==
    (ohlc4(candle) + haOpen + Max(candle.high * PriceScale, haOpen)
        + Min(candle.low * PriceScale, haOpen)) \div 4

HaCloses(cs, haOpens) ==
    SubSeq([i \in 1..Len(cs) |-> HaClose(cs[i], haOpens[i])], 1, Len(cs))

\* calculateHeikinAshi, reduced to the haClose series the generator uses.
calculateHeikinAshi(cs) == HaCloses(cs, HaOpens(cs, 1, <<>>))

Hlc3Values(cs) == SubSeq([i \in 1..Len(cs) |-> hlc3(cs[i])], 1, Len(cs))

\* yasin / yasin1: tma + (tma - tma') where both are defined, else null;
\* <<>> when the second triple smoothing returned null.
Yasin(tmaA, tmaB) ==
    IF tmaB = <<>> THEN <<>>
    ELSE SubSeq([i \in 1..Min(Len(tmaA), Len(tmaB)) |->
                    IF tmaA[i] # Null /\ tmaB[i] # Null
                    THEN tmaA[i] + (tmaA[i] - tmaB[i])
                    ELSE Null], 1, Min(Len(tmaA), Len(tmaB)))

\* A first-level TMA, smoothed a second time and combined with itself.
SecondLevel(tma, period) ==
    IF tma = <<>> THEN <<>> ELSE Yasin(tma, calculateTripleEMA(tma, period))

\* The red line (kirmizi): the Heikin-Ashi close, triple-smoothed twice.
KirmiziSeries(cs, period) ==
    SecondLevel(calculateTripleEMA(calculateHeikinAshi(cs), period), period)

\* The blue line (mavi): HLC3 of the raw candles, triple-smoothed twice.
MaviSeries(cs, period) ==
    SecondLevel(calculateTripleEMA(Hlc3Values(cs), period), period)

\* Variant: the guard covers one triple smoothing only.
HaMinCandles_OneChain(period) == period * 3

\* Number of candles below which the generator returns null at once.
HaMinCandles(period) == period * 6

\* Variant: the ordering alone, without the test of the previous bar.
LongCond_NoCross(mavi, kirmizi, prevMavi, prevKirmizi) == mavi > kirmizi

\* const longCond = mavi > kirmizi && prevMavi <= prevKirmizi
LongCond(mavi, kirmizi, prevMavi, prevKirmizi) ==
    mavi > kirmizi /\ prevMavi <= prevKirmizi

\* const shortCond = mavi < kirmizi && prevMavi >= prevKirmizi
ShortCond(mavi, kirmizi, prevMavi, prevKirmizi) ==
    mavi < kirmizi /\ prevMavi >= prevKirmizi

HaNull == [returned |-> "null"]

\* The crossover check and the returned record.
HaDecision(mavi, kirmizi, prevMavi, prevKirmizi) ==
    IF mavi = Null \/ kirmizi = Null \/ prevMavi = Null \/ prevKirmizi = Null
    THEN HaNull
    ELSE [returned |-> "record",
          signal |-> IF LongCond(mavi, kirmizi, prevMavi, prevKirmizi) THEN "BUY"
                     ELSE IF ShortCond(mavi, kirmizi, prevMavi, prevKirmizi) THEN "SELL"
                     ELSE "NONE",
          mavi |-> mavi, kirmizi |-> kirmizi,
          longCondition |-> LongCond(mavi, kirmizi, prevMavi, prevKirmizi),
          shortCondition |-> ShortCond(mavi, kirmizi, prevMavi, prevKirmizi)]

\* "Determine final signal": the latest and the previous entry of the lines.
HaFinalSignal(yasin, yasin1, currentIdx) ==
    IF yasin = <<>> \/ yasin1 = <<>> \/ currentIdx < 2 THEN HaNull
    ELSE HaDecision(yasin1[currentIdx], yasin[currentIdx],
                    yasin1[currentIdx - 1], yasin[currentIdx - 1])

HaLines(yasin, yasin1) ==
    HaFinalSignal(yasin, yasin1, Min(Len(yasin), Len(yasin1)))

calculateHeikinAshiSignals(cs, period) ==
    IF Len(cs) < HaMinCandles(period) THEN HaNull
    ELSE HaLines(KirmiziSeries(cs, period), MaviSeries(cs, period))

\* The signal an evaluation reports: "NONE" for null and for signal: null.
HaSignalOf(r) == IF r.returned = "record" THEN r.signal ELSE "NONE"

(***************************************************************************)
(* Specification of the generator over an expanding window: the backtest   *)
(* loop evaluates candles[0..i] for i = 0, 1, 2, ..., from scratch each    *)
(* time.                                                                   *)
(***************************************************************************)
UpCandle   == [open |-> 1, high |-> 3, low |-> 1, close |-> 3]
DownCandle == [open |-> 3, high |-> 3, low |-> 1, close |-> 1]
FlatCandle == [open |-> 2, high |-> 2, low |-> 2, close |-> 2]

\* Candles a window is built from; the longer windows of the larger period
\* are built from two shapes.
CandleSet(period) ==
    IF period = 1 THEN {UpCandle, DownCandle, FlatCandle}
                  ELSE {UpCandle, DownCandle}

EmaLengths == {1, 2}

\* The windows grow to HaExtra candles past the generator's minimum.
HaExtra == 2

HaInit ==
    /\ candles = <<>>
    /\ emaLength \in EmaLengths
    /\ haResult = HaNull
    /\ haPrevSignal = "START"

\* One turn of the backtest loop: the window gains a candle and is
\* evaluated.
BacktestStep ==
    /\ Len(candles) < HaMinCandles(emaLength) + HaExtra
    /\ \E c \in CandleSet(emaLength) :
          /\ candles' = Append(candles, c)
          /\ haResult' = calculateHeikinAshiSignals(candles', emaLength)
    /\ haPrevSignal' = IF candles = <<>> THEN "START" ELSE HaSignalOf(haResult)
    /\ UNCHANGED emaLength

SpecHAInit == HaInit /\ ConvIdle /\ AllIdle /\ LupIdle /\ GenIdle

SpecHANext == BacktestStep /\ UNCHANGED <<convVars, allVars, lupVars, genVars>>

SpecHA == SpecHAInit /\ [][SpecHANext]_vars

(***************************************************************************)
(* Properties of the Heikin-Ashi generator (specification SpecHA).         *)
(***************************************************************************)
\* C8: over an expanding window the generator never emits BUY at two
\* consecutive evaluations, nor SELL at two consecutive evaluations.
C8_Alternation ==
    /\ ~(haPrevSignal = "BUY" /\ HaSignalOf(haResult) = "BUY")
    /\ ~(haPrevSignal = "SELL" /\ HaSignalOf(haResult) = "SELL")

\* A BUY followed at the very next evaluation by a SELL.
C8_Witness == haPrevSignal = "BUY" /\ HaSignalOf(haResult) = "SELL"

\* What the claim asks of a signal, given the two lines at the latest bar
\* (m, k) and at the bar before it (pm, pk).
CrossoverRule(signal, m, k, pm, pk) ==
    /\ signal = "BUY" => (m > k /\ pm <= pk)
    /\ signal = "SELL" => (m < k /\ pm >= pk)
    /\ (m > k /\ pm > pk) => signal = "NONE"
    /\ (m < k /\ pm < pk) => signal = "NONE"

CrossoverRuleOn(signal, mavi, kirmizi, n) ==
    CrossoverRule(signal, mavi[n], kirmizi[n], mavi[n - 1], kirmizi[n - 1])

\* C9: no signal for a window of fewer than 6p candles; for longer windows
\* BUY only if mavi > kirmizi at the latest bar and mavi <= kirmizi at the
\* previous bar (SELL mirrored), and None when the two lines keep the same
\* strict ordering at both bars.
C9_Crossover ==
    /\ Len(candles) < 6 * emaLength => haResult = HaNull
    /\ haResult.returned = "record" =>
          CrossoverRuleOn(haResult.signal, MaviSeries(candles, emaLength),
                          KirmiziSeries(candles, emaLength), Len(candles))

EqualBefore(mavi, kirmizi, n) == mavi[n - 1] = kirmizi[n - 1]

\* A BUY at the minimum window length, crossing up from equal lines.
C9_Witness ==
    /\ haResult.returned = "record" /\ haResult.signal = "BUY"
    /\ Len(candles) = 6 * emaLength
    /\ EqualBefore(MaviSeries(candles, emaLength),
                   KirmiziSeries(candles, emaLength), Len(candles))

IsDefined(x) == x # Null

\* The defined entries of a series, in order.
DefinedOnly(series) == SelectSeq(series, IsDefined)

\* A series put back on the index grid of n entries, undefined in front.
Realigned(n, series) ==
    [i \in 1..n |-> IF i <= n - Len(series) THEN Null
                    ELSE series[i - (n - Len(series))]]

\* The second triple smoothing as the claim describes it: computed from the
\* defined entries of the first-level TMA only.
SmoothedFromDefined(tma, period) ==
    Realigned(Len(tma), calculateTripleEMA(DefinedOnly(tma), period))

LineFromDefined(tma, period) == Yasin(tma, SmoothedFromDefined(tma, period))

LatestOf(series) == series[Len(series)]

\* C20: the second triple smoothing (tma2, tma4) uses only the defined
\* entries of the first-level TMA, so the lines reported are those obtained
\* when the leading undefined entries contribute nothing.
C20_UndefinedNeverNumeric ==
    haResult.returned = "record" =>
        /\ haResult.mavi =
              LatestOf(LineFromDefined(
                  calculateTripleEMA(Hlc3Values(candles), emaLength), emaLength))
        /\ haResult.kirmizi =
              LatestOf(LineFromDefined(
                  calculateTripleEMA(calculateHeikinAshi(candles), emaLength),
                  emaLength))

(***************************************************************************)
(* Lupown (Sommi) generator: flags, diamonds and the signal decision.      *)
(* The WaveTrend, RSI and MFI series are the inputs here; they stand for   *)
(* what calculateWaveTrend, calculateRSI and calculateMFI computed from a  *)
(* window of at least minRequired candles.                                 *)
(***************************************************************************)
DefaultThresholds ==
    [wtOverbought |-> 53, wtOversold |-> 0 - 53,
     rsiOverbought |-> 70, rsiOversold |-> 30,
     mfiOverbought |-> 80, mfiOversold |-> 20]

DiamondOversold == 0 - 40
DiamondOverbought == 40
DiamondRsiOversold == 40
DiamondRsiOverbought == 60

\* detectSommiFlag at bar i; "NONE" is the null entry.
FlagAt(wt1, wt2, rsi, mfi, th, i) ==
    IF wt1[i] = Null \/ wt2[i] = Null \/ rsi[i] = Null \/ mfi[i] = Null
    THEN "NONE"
    ELSE IF /\ wt1[i] < th.wtOversold /\ wt2[i] < th.wtOversold
            /\ rsi[i] < th.rsiOversold /\ mfi[i] < th.mfiOversold
    THEN "BULLISH"
    ELSE IF /\ wt1[i] > th.wtOverbought /\ wt2[i] > th.wtOverbought
            /\ rsi[i] > th.rsiOverbought /\ mfi[i] > th.mfiOverbought
    THEN "BEARISH"
    ELSE "NONE"

detectSommiFlag(wt1, wt2, rsi, mfi, th) ==
    [i \in 1..Len(wt1) |-> FlagAt(wt1, wt2, rsi, mfi, th, i)]

\* detectSommiDiamond at bar i; the first bar has no predecessor.
DiamondAt(wt1, wt2, rsi, i) ==
    IF i = 1 THEN "NONE"
    ELSE IF wt1[i] = Null \/ wt2[i] = Null \/ wt1[i - 1] = Null
            \/ wt2[i - 1] = Null \/ rsi[i] = Null
    THEN "NONE"
    ELSE IF /\ wt1[i] > wt2[i] /\ wt1[i - 1] <= wt2[i - 1]
            /\ wt1[i] < DiamondOversold /\ rsi[i] < DiamondRsiOversold
    THEN "BULLISH"
    ELSE IF /\ wt1[i] < wt2[i] /\ wt1[i - 1] >= wt2[i - 1]
            /\ wt1[i] > DiamondOverbought /\ rsi[i] > DiamondRsiOverbought
    THEN "BEARISH"
    ELSE "NONE"

detectSommiDiamond(wt1, wt2, rsi) ==
    [i \in 1..Len(wt1) |-> DiamondAt(wt1, wt2, rsi, i)]

\* The if / else-if chain that determines the overall signal.
LupownSignal(currentDiamond, currentFlag) ==
    IF currentDiamond = "BULLISH" THEN "BUY"
    ELSE IF currentFlag = "BULLISH" THEN "BUY"
    ELSE IF currentDiamond = "BEARISH" THEN "SELL"
    ELSE IF currentFlag = "BEARISH" THEN "SELL"
    ELSE "NONE"

LupNull == [returned |-> "null"]

calculateLupownSignals(in) ==
    LET flags == detectSommiFlag(in.wt1, in.wt2, in.rsi, in.mfi, in.thresholds)
        diamonds == detectSommiDiamond(in.wt1, in.wt2, in.rsi)
        lastIdx == Len(in.wt1)
    IN  IF in.wt1[lastIdx] = Null \/ in.wt2[lastIdx] = Null
           \/ in.rsi[lastIdx] = Null \/ in.mfi[lastIdx] = Null
        THEN LupNull
        ELSE [returned |-> "record",
              signal |-> LupownSignal(diamonds[lastIdx], flags[lastIdx]),
              flag |-> flags[lastIdx],
              diamond |-> diamonds[lastIdx]]

\* Oscillator values tried, chosen on both sides of every threshold.
WtValues == {0 - 60, 0 - 55, 0 - 45, 45, 55, 60}
RsiValues == {25, 35, 65, 75}
MfiValues == {Null, 10, 90}

\* Threshold configurations tried: the defaults, and one whose oversold
\* thresholds lie above the diamond's overbought zone.
WideOversold ==
    [DefaultThresholds EXCEPT !.wtOversold = 70, !.rsiOversold = 80]

ThresholdConfigs == {DefaultThresholds, WideOversold}

\* The latest bar and the one before it.
LupBars == {1, 2}

LupInit ==
    /\ lupIn \in [wt1 : [LupBars -> WtValues], wt2 : [LupBars -> WtValues],
                  rsi : [LupBars -> RsiValues], mfi : [LupBars -> MfiValues],
                  thresholds : ThresholdConfigs]
    /\ lupPc = "call"
    /\ lupResult = LupNull

CalculateLupownSignals ==
    /\ lupPc = "call"
    /\ lupResult' = calculateLupownSignals(lupIn)
    /\ lupPc' = "done"
    /\ UNCHANGED lupIn

SpecLupInit == LupInit /\ ConvIdle /\ AllIdle /\ HaIdle /\ GenIdle

SpecLupNext == CalculateLupownSignals /\ UNCHANGED <<convVars, allVars, haVars, genVars>>

SpecLup == SpecLupInit /\ [][SpecLupNext]_vars

OthersIdle == ConvIdle /\ AllIdle /\ HaIdle /\ LupIdle

\* new Array(n).fill(null)
NullSeries(n) == [i \in 1..n |-> Null]

RECURSIVE SumRange(_, _, _)
\* values[a] + ... + values[b] (1-based, inclusive), null counting as 0.
SumRange(values, a, b) ==
    IF a > b THEN 0 ELSE Num(values[b]) + SumRange(values, a, b - 1)

\* Variant: the warm-up test written as i < period - 2.
WarmUp_OffByOne(period) == period - 2

\* The number of leading entries the loops leave null: `i < period - 1`.
WarmUp(period) == period - 1

calculateSMA(values, period) ==
    IF Len(values) < period THEN NullSeries(Len(values))
    ELSE [i \in 1..Len(values) |->
            IF i - 1 < WarmUp(period) THEN Null
            ELSE SumRange(values, Max(1, i - period + 1), i) \div period]

RECURSIVE EMATail(_, _, _, _)
\* The loop `for (i = period; ...)` of calculateEMA; ema holds entries 1..i-1.
EMATail(values, period, i, ema) ==
    IF i > Len(values) THEN ema
    ELSE EMATail(values, period, i + 1,
                 Append(ema, EMAStep(values[i], ema[i - 1], period)))

calculateEMA(values, period) ==
    IF Len(values) < period THEN NullSeries(Len(values))
    ELSE EMATail(values, period, period + 1,
                 [i \in 1..period |->
                     IF i < period THEN Null
                     ELSE SumRange(values, 1, period) \div period])

RECURSIVE WeightedSum(_, _, _, _)
\* sum of values[i - j] * (period - j) for j = 0 .. period - 1 (i 1-based).
WeightedSum(values, period, i, j) ==
    IF j >= period THEN 0
    ELSE Num(values[i - j]) * (period - j) + WeightedSum(values, period, i, j + 1)

calculateWMA(values, period) ==
    IF Len(values) < period THEN NullSeries(Len(values))
    ELSE [i \in 1..Len(values) |->
            IF i - 1 < WarmUp(period) THEN Null
            ELSE WeightedSum(values, period, i, 0)
                     \div ((period * (period + 1)) \div 2)]

\* RSI and MFI values are kept in hundredths of a point.
RsiUnit == 10 * 10
FullRSI == 100 * RsiUnit

Gain(change) == IF change > 0 THEN change ELSE 0

\* Variant: the loss column filled with the gain expression.
Loss_CopyOfGain(change) == IF change > 0 THEN change ELSE 0

Loss(change) == IF change < 0 THEN 0 - change ELSE 0

\* gains[i] / losses[i] of calculateRSI (0 at the first entry).
GainAt(values, i) == IF i = 1 THEN 0 ELSE Gain(Num(values[i]) - Num(values[i - 1]))
LossAt(values, i) == IF i = 1 THEN 0 ELSE Loss(Num(values[i]) - Num(values[i - 1]))

\* 100 when avgLoss is 0, else 100 - 100 / (1 + avgGain / avgLoss), which is
\* 100 - 100 * avgLoss / (avgGain + avgLoss).
RSIValue(avgGain, avgLoss) ==
    IF avgLoss = 0 THEN FullRSI
    ELSE FullRSI - (FullRSI * avgLoss) \div (avgGain + avgLoss)

RECURSIVE RSITail(_, _, _, _, _, _)
RECURSIVE RSINext(_, _, _, _, _, _)
\* Wilder's smoothing over entries period + 2 .. n; rsi holds entries 1..i-1.
RSITail(values, period, i, avgGain, avgLoss, rsi) ==
    IF i > Len(values) THEN rsi
    ELSE RSINext(values, period, i,
                 (avgGain * (period - 1) + GainAt(values, i)) \div period,
                 (avgLoss * (period - 1) + LossAt(values, i)) \div period, rsi)

RSINext(values, period, i, avgGain, avgLoss, rsi) ==
    RSITail(values, period, i + 1, avgGain, avgLoss,
            Append(rsi, RSIValue(avgGain, avgLoss)))

calculateRSI(values, period) ==
    IF Len(values) < period + 1 THEN NullSeries(Len(values))
    ELSE RSINext(values, period, period + 1,
                 SumRange([i \in 1..Len(values) |-> GainAt(values, i)],
                          2, period + 1) \div period,
                 SumRange([i \in 1..Len(values) |-> LossAt(values, i)],
                          2, period + 1) \div period,
                 NullSeries(period))

\* typicalPrice(c) = hlc3(c), as a fixed-point integer.
typicalPrice(c) == (c.high + c.low + c.close) \div 3

RECURSIVE FlowSum_FromStart(_, _, _, _)
\* Variant: the flows are accumulated from the start of the series.
FlowSum_FromStart(cs, a, b, positive) ==
    IF b < 2 THEN 0
    ELSE (IF (typicalPrice(cs[b]) > typicalPrice(cs[b - 1])) = positive
          THEN typicalPrice(cs[b]) * cs[b].volume ELSE 0)
         + FlowSum_FromStart(cs, a, b - 1, positive)

RECURSIVE FlowSum(_, _, _, _)
\* The inner loop of calculateMFI over j = a..b (1-based): the raw money flow
\* of the bars whose typical price rose (positive = TRUE) or did not rise.
FlowSum(cs, a, b, positive) ==
    IF a > b THEN 0
    ELSE (IF (typicalPrice(cs[b]) > typicalPrice(cs[b - 1])) = positive
          THEN typicalPrice(cs[b]) * cs[b].volume ELSE 0)
         + FlowSum(cs, a, b - 1, positive)

MFIValue(positiveFlow, negativeFlow) ==
    IF negativeFlow = 0 THEN FullRSI
    ELSE FullRSI - (FullRSI * negativeFlow) \div (positiveFlow + negativeFlow)

calculateMFI(cs, period) ==
    IF Len(cs) < period + 1 THEN NullSeries(Len(cs))
    ELSE [i \in 1..Len(cs) |->
            IF i - 1 < period THEN Null
            ELSE MFIValue(FlowSum(cs, i - period + 1, i, TRUE),
                          FlowSum(cs, i - period + 1, i, FALSE))]

RECURSIVE SqrtBetween(_, _, _)
\* The largest r in lo..hi with r * r <= n.
SqrtBetween(n, lo, hi) ==
    IF lo >= hi THEN lo
    ELSE IF ((lo + hi + 1) \div 2) * ((lo + hi + 1) \div 2) <= n
         THEN SqrtBetween(n, (lo + hi + 1) \div 2, hi)
         ELSE SqrtBetween(n, lo, ((lo + hi + 1) \div 2) - 1)

\* Math.sqrt, rounded down to the fixed-point grid.
Sqrt(n) == SqrtBetween(n, 0, Min(n, 46340))

RECURSIVE SquaredDiffs(_, _, _, _)
\* sum over values[a..b] of (v - mean)^2
SquaredDiffs(values, a, b, mean) ==
    IF a > b THEN 0
    ELSE (Num(values[b]) - mean) * (Num(values[b]) - mean)
         + SquaredDiffs(values, a, b - 1, mean)

StdDevAt(values, period, i, mean) ==
    IF mean = Null THEN Null
    ELSE Sqrt(SquaredDiffs(values, Max(1, i - period + 1), i, mean) \div period)

StdDevFrom(values, period, ma) ==
    [i \in 1..Len(values) |->
        IF i - 1 < WarmUp(period) THEN Null
        ELSE StdDevAt(values, period, i, ma[i])]

\* calculateStdDev with useSMA = true, the only way the repository calls it.
calculateStdDev(values, period) ==
    IF Len(values) < period THEN NullSeries(Len(values))
    ELSE StdDevFrom(values, period, calculateSMA(values, period))

BandsFrom(middle, stdDev, multiplier) ==
    [upper  |-> [i \in 1..Len(middle) |->
                    IF middle[i] # Null /\ stdDev[i] # Null
                    THEN middle[i] + multiplier * stdDev[i] ELSE Null],
     middle |-> middle,
     lower  |-> [i \in 1..Len(middle) |->
                    IF middle[i] # Null /\ stdDev[i] # Null
                    THEN middle[i] - multiplier * stdDev[i] ELSE Null]]

calculateBollingerBands(values, period, multiplier) ==
    BandsFrom(calculateSMA(values, period), calculateStdDev(values, period),
              multiplier)

AbsVal(x) == IF x < 0 THEN 0 - x ELSE x

\* tr[i] of calculateATR
TrueRange(cs, i) ==
    IF i = 1 THEN cs[1].high - cs[1].low
    ELSE Max(cs[i].high - cs[i].low,
             Max(AbsVal(cs[i].high - cs[i - 1].close),
                 AbsVal(cs[i].low - cs[i - 1].close)))

RECURSIVE TrueRangeSum(_, _)
TrueRangeSum(cs, k) == IF k = 0 THEN 0 ELSE TrueRange(cs, k) + TrueRangeSum(cs, k - 1)

RECURSIVE ATRLoop(_, _, _, _)
\* The second loop of calculateATR; atr holds entries 1..i-1.
ATRLoop(cs, period, i, atr) ==
    IF i > Len(cs) THEN atr
    ELSE ATRLoop(cs, period, i + 1,
                 Append(atr,
                        IF i - 1 < period - 1 THEN Null
                        ELSE IF i - 1 = period - 1
                             THEN TrueRangeSum(cs, i) \div period
                             ELSE (Num(atr[i - 1]) * (period - 1)
                                     + TrueRange(cs, i)) \div period))

calculateATR(cs, period) == ATRLoop(cs, period, 1, <<>>)

RECURSIVE MaxRange(_, _, _)
MaxRange(values, a, b) ==
    IF a >= b THEN values[b] ELSE Max(values[b], MaxRange(values, a, b - 1))

RECURSIVE MinRange(_, _, _)
MinRange(values, a, b) ==
    IF a >= b THEN values[b] ELSE Min(values[b], MinRange(values, a, b - 1))

highest(values, period) ==
    [i \in 1..Len(values) |->
        IF i - 1 < WarmUp(period) THEN Null
        ELSE MaxRange(values, Max(1, i - period + 1), i)]

lowest(values, period) ==
    [i \in 1..Len(values) |->
        IF i - 1 < WarmUp(period) THEN Null
        ELSE MinRange(values, Max(1, i - period + 1), i)]

(***************************************************************************)
(* The primitives called on one candle window: the close series for the    *)
(* value primitives, the candles themselves for MFI and ATR.               *)
(***************************************************************************)
PrimUnit == 3 * 4

PrimCandle(h, l, c, v) ==
    [high |-> h * PrimUnit, low |-> l * PrimUnit, close |-> c * PrimUnit,
     volume |-> v]

PrimCandles ==
    {PrimCandle(2, 0, 1, 1), PrimCandle(3, 1, 2, 2), PrimCandle(4, 2, 3, 1),
     PrimCandle(5, 3, 4, 3), PrimCandle(6, 1, 5, 2)}

MaxPrimLen == 4
PrimPeriods == 1..4

Closes(cs) == [i \in 1..Len(cs) |-> cs[i].close]

BollingerMultiplier == 2

PrimInit ==
    /\ genIn \in {[candles |-> cs, period |-> p] :
                     cs \in UNION {[1..n -> PrimCandles] : n \in 0..MaxPrimLen},
                     p \in PrimPeriods}
    /\ genPc = "call"
    /\ genOut = [returned |-> "null"]

CallPrimitives ==
    /\ genPc = "call"
    /\ genOut' = [returned |-> "series",
                  sma |-> calculateSMA(Closes(genIn.candles), genIn.period),
                  ema |-> calculateEMA(Closes(genIn.candles), genIn.period),
                  wma |-> calculateWMA(Closes(genIn.candles), genIn.period),
                  rsi |-> calculateRSI(Closes(genIn.candles), genIn.period),
                  mfi |-> calculateMFI(genIn.candles, genIn.period),
                  atr |-> calculateATR(genIn.candles, genIn.period),
                  stdDev |-> calculateStdDev(Closes(genIn.candles), genIn.period),
                  bands |-> calculateBollingerBands(Closes(genIn.candles),
                                                    genIn.period,
                                                    BollingerMultiplier),
                  highest |-> highest(Closes(genIn.candles), genIn.period),
                  lowest |-> lowest(Closes(genIn.candles), genIn.period)]
    /\ genPc' = "done"
    /\ UNCHANGED genIn

SpecPrimInit == PrimInit /\ OthersIdle

SpecPrimNext == CallPrimitives /\ UNCHANGED <<convVars, allVars, haVars, lupVars>>

SpecPrim == SpecPrimInit /\ [][SpecPrimNext]_vars

PrimDone == genPc = "done" /\ genOut.returned = "series"

AllUndefined(series, n) ==
    /\ DOMAIN series = 1..n
    /\ \A i \in 1..n : series[i] = Null

\* C17: for a period p >= 1 and an input shorter than p, every series
\* primitive returns a series as long as the input whose entries are all
\* undefined (Bollinger Bands: each of its three series).
C17_ShortInput ==
    (PrimDone /\ Len(genIn.candles) < genIn.period) =>
        \A series \in {genOut.sma, genOut.ema, genOut.wma, genOut.rsi,
                       genOut.mfi, genOut.atr, genOut.stdDev,
                       genOut.bands.upper, genOut.bands.middle,
                       genOut.bands.lower, genOut.highest, genOut.lowest} :
            AllUndefined(series, Len(genIn.candles))

\* A non-empty input one entry short of the period.
C17_Witness ==
    /\ PrimDone
    /\ Len(genIn.candles) >= 2
    /\ Len(genIn.candles) = genIn.period - 1
    /\ AllUndefined(genOut.highest, Len(genIn.candles))

StrictlyIncreasing(values) ==
    \A i \in 1..(Len(values) - 1) : values[i] < values[i + 1]

\* C19: for a strictly increasing price sequence longer than the period p,
\* calculateRSI is exactly 100 at every index >= p and undefined at every
\* index < p (0-based indices; entry i + 1 here).
C19_SaturatedRSI ==
    (/\ PrimDone
     /\ Len(genIn.candles) > genIn.period
     /\ StrictlyIncreasing(Closes(genIn.candles))) =>
        /\ DOMAIN genOut.rsi = 1..Len(genIn.candles)
        /\ \A i \in 1..Len(genIn.candles) :
              genOut.rsi[i] = IF i - 1 >= genIn.period THEN FullRSI ELSE Null

\* A strictly increasing input with at least two entries past the seed.
C19_Witness ==
    /\ PrimDone
    /\ StrictlyIncreasing(Closes(genIn.candles))
    /\ Len(genIn.candles) >= genIn.period + 2
    /\ genOut.rsi[Len(genIn.candles)] = FullRSI
    /\ genOut.rsi[genIn.period] = Null

(***************************************************************************)
(* Order-block detector (indicators/order-blocks.js).  Candle prices are   *)
(* integers; a multiplier or ratio with one decimal is kept in tenths and  *)
(* testThreshold in thousandths, and the comparisons of the code are made  *)
(* on both sides multiplied out, so they are exact.  An array entry null   *)
(* is the record NoEntry; a block's index is the 0-based index of the      *)
(* code.                                                                   *)
(***************************************************************************)
NoEntry == [type |-> "NONE"]

IsEntry(e) == e.type # "NONE"

\* candle.close > candle.open ("BULLISH") or candle.close < candle.open
HasDirection(c, type) ==
    IF type = "BULLISH" THEN c.close > c.open ELSE c.close < c.open

OtherDirection(type) == IF type = "BULLISH" THEN "BEARISH" ELSE "BULLISH"

RECURSIVE Streak(_, _, _, _)
\* bullishStreak / bearishStreak over candles a..b
Streak(cs, a, b, type) ==
    IF a > b THEN 0
    ELSE (IF HasDirection(cs[b], type) THEN 1 ELSE 0) + Streak(cs, a, b - 1, type)

RECURSIVE TotalMove(_, _, _, _)
\* totalBullishMove / totalBearishMove over candles a..b
TotalMove(cs, a, b, type) ==
    IF a > b THEN 0
    ELSE (IF HasDirection(cs[b], type) THEN AbsVal(cs[b].close - cs[b].open) ELSE 0)
         + TotalMove(cs, a, b - 1, type)

\* Variant: the test of the streak length left out.
IsStrongMove_NoStreak(streak, total, atr, cfg) ==
    total * 10 > atr * cfg.minMoveMultiplier

\* streak >= minConsecutiveBars && totalMove > atr[i] * minMoveMultiplier
IsStrongMove(streak, total, atr, cfg) ==
    /\ streak >= cfg.minConsecutiveBars
    /\ total * 10 > atr * cfg.minMoveMultiplier

MoveOfType(cs, atr, cfg, i, type) ==
    IsStrongMove(Streak(cs, i - cfg.minConsecutiveBars + 1, i, type),
                 TotalMove(cs, i - cfg.minConsecutiveBars + 1, i, type),
                 atr[i], cfg)

\* The entry pushed for candle i (1-based): strength is kept in hundredths.
StrongMoveAt(cs, atr, cfg, i) ==
    IF atr[i] = Null THEN NoEntry
    ELSE IF MoveOfType(cs, atr, cfg, i, "BULLISH")
         THEN [type |-> "BULLISH",
               strength |-> (TotalMove(cs, i - cfg.minConsecutiveBars + 1, i,
                                       "BULLISH") * 100) \div atr[i]]
    ELSE IF MoveOfType(cs, atr, cfg, i, "BEARISH")
         THEN [type |-> "BEARISH",
               strength |-> (TotalMove(cs, i - cfg.minConsecutiveBars + 1, i,
                                       "BEARISH") * 100) \div atr[i]]
    ELSE NoEntry

\* detectStrongMoves: one entry per candle from index minConsecutiveBars on,
\* then minConsecutiveBars nulls put in front.
detectStrongMoves(cs, atr, cfg) ==
    [k \in 1..(cfg.minConsecutiveBars
                 + Max(0, Len(cs) - cfg.minConsecutiveBars)) |->
        IF k <= cfg.minConsecutiveBars THEN NoEntry
        ELSE StrongMoveAt(cs, atr, cfg, k)]

RECURSIVE LastCandleOfType(_, _, _, _)
\* The search `for (j = i - 1; j >= Math.max(0, i - lookbackPeriod); j--)`:
\* the position of the nearest candle of the given direction in lo..j, or 0.
LastCandleOfType(cs, j, lo, type) ==
    IF j < lo THEN 0
    ELSE IF HasDirection(cs[j], type) THEN j
    ELSE LastCandleOfType(cs, j - 1, lo, type)

RECURSIVE VolumeSum(_, _, _)
VolumeSum(cs, a, b) == IF a > b THEN 0 ELSE cs[b].volume + VolumeSum(cs, a, b - 1)

\* volumes[orderBlockIndex] > avgVolume * minVolumeRatio, where avgVolume is
\* the sum of the (at most 20) volumes before the block divided by 20.
HighVolume(cs, j, cfg) ==
    cs[j].volume * 20 * 10 > VolumeSum(cs, Max(1, j - 20), j - 1) * cfg.minVolumeRatio

BlockAt(cs, j, type, strength) ==
    [type |-> type, index |-> j - 1, high |-> cs[j].high, low |-> cs[j].low,
     open |-> cs[j].open, close |-> cs[j].close, volume |-> cs[j].volume,
     strength |-> strength]

BlockFrom(cs, j, cfg, type, strength) ==
    IF j = 0 THEN NoEntry
    ELSE IF HighVolume(cs, j, cfg) THEN BlockAt(cs, j, type, strength)
    ELSE NoEntry

\* The entry pushed for candle i (1-based) by the loop that starts at the
\* second candle.
OrderBlockFor(cs, strongMoves, cfg, i, type) ==
    IF strongMoves[i].type # type THEN NoEntry
    ELSE BlockFrom(cs,
                   LastCandleOfType(cs, i - 1, Max(1, i - cfg.lookbackPeriod),
                                    OtherDirection(type)),
                   cfg, type, strongMoves[i].strength)

\* The array the loop `for (let i = 1; i < candles.length; i++)` builds by
\* push alone: entry k (1-based) is the one made for candle k + 1.
OrderBlockSeries(cs, strongMoves, cfg, type) ==
    [k \in 1..(Len(cs) - 1) |-> OrderBlockFor(cs, strongMoves, cfg, k + 1, type)]

identifyBullishOrderBlocks(cs, strongMoves, cfg) ==
    OrderBlockSeries(cs, strongMoves, cfg, "BULLISH")

identifyBearishOrderBlocks(cs, strongMoves, cfg) ==
    OrderBlockSeries(cs, strongMoves, cfg, "BEARISH")

\* The loop that collects the active blocks: the non-null entries from
\* position Math.max(0, lastIdx - maxOrderBlockAge) (0-based) to the end.
ActiveBlocks(orderBlocks, lastIdx, cfg) ==
    SelectSeq(SubSeq(orderBlocks, Max(0, lastIdx - cfg.maxOrderBlockAge) + 1,
                     Len(orderBlocks)),
              IsEntry)

\* Variant: the bearish branch measures the distance to the block's low.
checkOrderBlockTest_BearishUsesLow(currentPrice, orderBlock, cfg) ==
    /\ IsEntry(orderBlock)
    /\ AbsVal(currentPrice - orderBlock.low) * 1000
           <= orderBlock.low * cfg.testThreshold
    /\ IF orderBlock.type = "BULLISH" THEN currentPrice >= orderBlock.low
       ELSE currentPrice <= orderBlock.high

\* checkOrderBlockTest: distance <= boundary * testThreshold, on the
\* favourable side of the boundary.
checkOrderBlockTest(currentPrice, orderBlock, cfg) ==
    /\ IsEntry(orderBlock)
    /\ IF orderBlock.type = "BULLISH"
       THEN /\ AbsVal(currentPrice - orderBlock.low) * 1000
                   <= orderBlock.low * cfg.testThreshold
            /\ currentPrice >= orderBlock.low
       ELSE /\ AbsVal(currentPrice - orderBlock.high) * 1000
                   <= orderBlock.high * cfg.testThreshold
            /\ currentPrice <= orderBlock.high

\* The first block of the list the latest close tests, or NoEntry.
FirstTested(currentPrice, blocks, cfg) ==
    IF \E k \in 1..Len(blocks) : checkOrderBlockTest(currentPrice, blocks[k], cfg)
    THEN blocks[CHOOSE k \in 1..Len(blocks) :
                   /\ checkOrderBlockTest(currentPrice, blocks[k], cfg)
                   /\ \A m \in 1..(k - 1) :
                         ~checkOrderBlockTest(currentPrice, blocks[m], cfg)]
    ELSE NoEntry

\* The two loops over the active blocks: the second one overwrites the
\* signal the first one set.
OrderBlockSignal(testedBullishOB, testedBearishOB) ==
    IF IsEntry(testedBearishOB) THEN "SELL"
    ELSE IF IsEntry(testedBullishOB) THEN "BUY"
    ELSE "NONE"

OrderBlockRecord(activeBullishOBs, activeBearishOBs, testedBullishOB, testedBearishOB) ==
    [returned |-> "record",
     signal |-> OrderBlockSignal(testedBullishOB, testedBearishOB),
     bullishOB |-> testedBullishOB,
     bearishOB |-> testedBearishOB,
     activeBullishOBs |-> Len(activeBullishOBs),
     activeBearishOBs |-> Len(activeBearishOBs),
     allBullishOBs |-> activeBullishOBs,
     allBearishOBs |-> activeBearishOBs]

OrderBlockTests(currentPrice, activeBullishOBs, activeBearishOBs, cfg) ==
    OrderBlockRecord(activeBullishOBs, activeBearishOBs,
                     FirstTested(currentPrice, activeBullishOBs, cfg),
                     FirstTested(currentPrice, activeBearishOBs, cfg))

OrderBlocksFrom(cs, strongMoves, cfg) ==
    OrderBlockTests(cs[Len(cs)].close,
                    ActiveBlocks(identifyBullishOrderBlocks(cs, strongMoves, cfg),
                                 Len(cs) - 1, cfg),
                    ActiveBlocks(identifyBearishOrderBlocks(cs, strongMoves, cfg),
                                 Len(cs) - 1, cfg),
                    cfg)

OrderBlocksMinRequiredFor(cfg) ==
    Max(cfg.atrPeriod, Max(cfg.lookbackPeriod, cfg.minConsecutiveBars)) + 10

detectOrderBlocks(cs, cfg) ==
    IF Len(cs) < OrderBlocksMinRequiredFor(cfg) THEN [returned |-> "null"]
    ELSE OrderBlocksFrom(cs,
                         detectStrongMoves(cs, calculateATR(cs, cfg.atrPeriod), cfg),
                         cfg)

(***************************************************************************)
(* detectOrderBlocks called on windows made of a quiet stretch of candles  *)
(* without direction followed by a few directional candles.                *)
(***************************************************************************)
ObCandle(o, h, l, c) == [open |-> o, high |-> h, low |-> l, close |-> c, volume |-> 1]

QuietCandle == ObCandle(2000, 3000, 1000, 2000)

ObCandles ==
    {ObCandle(1000, 3000, 1000, 3000),      \* bullish, closes at 3000
     ObCandle(3000, 3000, 1000, 1000),      \* bearish, low 1000
     ObCandle(5000, 5000, 3000, 3000),      \* bearish, low 3000
     ObCandle(1000, 3004, 1000, 3004)}      \* bullish, closes just above 3000

ObQuietLen == 5 + 5
ObFree == 5

ObWindows ==
    {[i \in 1..ObQuietLen |-> QuietCandle] \o suffix :
        suffix \in UNION {[1..n -> ObCandles] : n \in 0..ObFree}}

\* The defaults of detectOrderBlocks, periods apart.
ObDefaultMultiplier == 2 * 10
ObDefaultVolumeRatio == 12
ObDefaultMaxAge == 100
ObDefaultTestThreshold == 2

ObConfigs ==
    {[atrPeriod |-> 1, minMoveMultiplier |-> mult, minConsecutiveBars |-> 2,
      minVolumeRatio |-> ratio, lookbackPeriod |-> 2,
      testThreshold |-> ObDefaultTestThreshold, maxOrderBlockAge |-> age] :
        mult \in {5, 10, ObDefaultMultiplier},
        ratio \in {ObDefaultVolumeRatio, 30},
        age \in {2, ObDefaultMaxAge}}

ObInit ==
    /\ genIn \in {[candles |-> w, config |-> cfg] :
                     w \in ObWindows, cfg \in ObConfigs}
    /\ genPc = "call"
    /\ genOut = [returned |-> "null"]

DetectOrderBlocks ==
    /\ genPc = "call"
    /\ genOut' = detectOrderBlocks(genIn.candles, genIn.config)
    /\ genPc' = "done"
    /\ UNCHANGED genIn

SpecOBInit == ObInit /\ OthersIdle

SpecOBNext == DetectOrderBlocks /\ UNCHANGED <<convVars, allVars, haVars, lupVars>>

SpecOB == SpecOBInit /\ [][SpecOBNext]_vars

ObDone == genPc = "done" /\ genOut.returned = "record"

\* A strong move as the claim words it: a run of minConsecutiveBars candles
\* of one direction, ending at candle i, whose bodies add up to at least
\* minMoveMultiplier * ATR.
RunIsStrongMove(cs, atr, cfg, i, type) ==
    /\ \A j \in (i - cfg.minConsecutiveBars + 1)..i : HasDirection(cs[j], type)
    /\ atr[i] # Null
    /\ TotalMove(cs, i - cfg.minConsecutiveBars + 1, i, type) * 10
           >= atr[i] * cfg.minMoveMultiplier

WindowHasStrongMove(cs, atr, cfg) ==
    \E i \in cfg.minConsecutiveBars..Len(cs), type \in {"BULLISH", "BEARISH"} :
        RunIsStrongMove(cs, atr, cfg, i, type)

\* C14: a window without any strong move yields no bullish and no bearish
\* order block and the signal None.
C14_NoStrongMoveNoBlocks ==
    (/\ ObDone
     /\ ~WindowHasStrongMove(genIn.candles,
                             calculateATR(genIn.candles, genIn.config.atrPeriod),
                             genIn.config)) =>
        /\ genOut.activeBullishOBs = 0
        /\ genOut.activeBearishOBs = 0
        /\ genOut.signal = "NONE"

\* A window with candles of both directions in which no run is a strong move.
C14_Witness ==
    /\ ObDone
    /\ ~WindowHasStrongMove(genIn.candles,
                            calculateATR(genIn.candles, genIn.config.atrPeriod),
                            genIn.config)
    /\ \E i \in 2..Len(genIn.candles) :
          /\ HasDirection(genIn.candles[i], "BULLISH")
          /\ HasDirection(genIn.candles[i - 1], "BEARISH")
    /\ genOut.activeBullishOBs = 0 /\ genOut.activeBearishOBs = 0

\* C15: every block kept as active lies at most maxOrderBlockAge candles
\* before the last candle.
C15_ActiveBlocksAreRecent ==
    ObDone =>
        \A blocks \in {genOut.allBullishOBs, genOut.allBearishOBs} :
            \A k \in 1..Len(blocks) :
                (Len(genIn.candles) - 1) - blocks[k].index
                    <= genIn.config.maxOrderBlockAge

\* A block is tested, in the claim's words: low <= c <= low * (1 + t) for a
\* bullish block, high * (1 - t) <= c <= high for a bearish one.
ClaimTested(c, block, cfg) ==
    IF block.type = "BULLISH"
    THEN block.low <= c /\ c * 1000 <= block.low * (1000 + cfg.testThreshold)
    ELSE block.high * (1000 - cfg.testThreshold) <= c * 1000 /\ c <= block.high

SomeTested(c, blocks, cfg) ==
    \E k \in 1..Len(blocks) : ClaimTested(c, blocks[k], cfg)

LatestClose == genIn.candles[Len(genIn.candles)].close

\* C16 as stated: BUY whenever some active bullish block is tested, SELL
\* whenever some active bearish block is tested, None when none is.
C16_Original ==
    ObDone =>
        /\ SomeTested(LatestClose, genOut.allBullishOBs, genIn.config)
              => genOut.signal = "BUY"
        /\ SomeTested(LatestClose, genOut.allBearishOBs, genIn.config)
              => genOut.signal = "SELL"
        /\ (/\ ~SomeTested(LatestClose, genOut.allBullishOBs, genIn.config)
            /\ ~SomeTested(LatestClose, genOut.allBearishOBs, genIn.config))
              => genOut.signal = "NONE"

\* C16 amended: SELL whenever some active bearish block is tested; BUY
\* whenever some active bullish block is tested and no active bearish block
\* is; None when no active block is tested.
C16_Amended ==
    ObDone =>
        genOut.signal =
            IF SomeTested(LatestClose, genOut.allBearishOBs, genIn.config)
            THEN "SELL"
            ELSE IF SomeTested(LatestClose, genOut.allBullishOBs, genIn.config)
                 THEN "BUY"
            ELSE "NONE"

\* The latest close tests a bullish and a bearish block at once.
C16_Witness ==
    /\ ObDone
    /\ SomeTested(LatestClose, genOut.allBullishOBs, genIn.config)
    /\ SomeTested(LatestClose, genOut.allBearishOBs, genIn.config)
    /\ genOut.signal = "SELL"

\* C18: each index-aligned series of the detector (ATR, strong moves, the
\* bullish and the bearish order-block array) has one entry per candle.
C18_SeriesLength ==
    ObDone =>
        /\ Len(calculateATR(genIn.candles, genIn.config.atrPeriod))
              = Len(genIn.candles)
        /\ \A type \in {"BULLISH", "BEARISH"} :
              Len(OrderBlockSeries(
                      genIn.candles,
                      detectStrongMoves(
                          genIn.candles,
                          calculateATR(genIn.candles, genIn.config.atrPeriod),
                          genIn.config),
                      genIn.config, type)) = Len(genIn.candles)
        /\ Len(detectStrongMoves(
                   genIn.candles,
                   calculateATR(genIn.candles, genIn.config.atrPeriod),
                   genIn.config)) = Len(genIn.candles)

(***************************************************************************)
(* Divergence detector (indicators/divergences.js).  A pivot array entry   *)
(* null is the record NoPivot; index is the 0-based index of the code.     *)
(* The four lists of divergences are kept as sets: the code uses only      *)
(* their members and whether they are empty.                               *)
(***************************************************************************)
NoPivot == [index |-> 0 - 1]

IsPivot(p) == p.index >= 0

\* The test that disqualifies a pivot: values[j] <= currentValue for a low,
\* values[j] >= currentValue for a high (null compares as 0).
Dominates(neighbour, current, kind) ==
    IF kind = "LOW" THEN Num(neighbour) <= Num(current)
    ELSE Num(neighbour) >= Num(current)

\* The entry findPivotLows / findPivotHighs push for position i (1-based).
PivotAt(values, i, leftBars, rightBars, kind) ==
    IF i - 1 < leftBars \/ i - 1 >= Len(values) - rightBars THEN NoPivot
    ELSE IF \E j \in (i - leftBars)..(i + rightBars) :
                j # i /\ Dominates(values[j], values[i], kind)
         THEN NoPivot
    ELSE [index |-> i - 1, value |-> values[i]]

findPivotLows(values, leftBars, rightBars) ==
    [i \in 1..Len(values) |-> PivotAt(values, i, leftBars, rightBars, "LOW")]

findPivotHighs(values, leftBars, rightBars) ==
    [i \in 1..Len(values) |-> PivotAt(values, i, leftBars, rightBars, "HIGH")]

\* rsiPivots.find(r => Math.abs(r.originalIndex - index) <= 2)
FindRSIPivot(rsiPivots, index) ==
    IF \E k \in 1..Len(rsiPivots) : AbsVal(rsiPivots[k].index - index) <= 2
    THEN rsiPivots[CHOOSE k \in 1..Len(rsiPivots) :
                      /\ AbsVal(rsiPivots[k].index - index) <= 2
                      /\ \A m \in 1..(k - 1) :
                            AbsVal(rsiPivots[m].index - index) > 2]
    ELSE NoPivot

\* Variant: the regular bullish test without the price condition.
ValuesDiverge_RsiOnly(type, currentPrice, prevPrice, currentRSI, prevRSI) ==
    IF type \in {"REGULAR_BULLISH", "HIDDEN_BEARISH"}
    THEN currentRSI > prevRSI
    ELSE currentRSI < prevRSI

\* The value test of the four detect... functions.
ValuesDiverge(type, currentPrice, prevPrice, currentRSI, prevRSI) ==
    IF type \in {"REGULAR_BULLISH", "HIDDEN_BEARISH"}
    THEN currentPrice < prevPrice /\ currentRSI > prevRSI
    ELSE currentPrice > prevPrice /\ currentRSI < prevRSI

PairDiverges(type, current, prev, currentRSI, prevRSI, minBars) ==
    /\ IsPivot(currentRSI) /\ IsPivot(prevRSI)
    /\ current.index - prev.index >= minBars
    /\ ValuesDiverge(type, current.value, prev.value,
                     Num(currentRSI.value), Num(prevRSI.value))

DivergencesAmong(type, pricePivots, rsiPivots, minBars) ==
    {[type |-> type,
      priceIndex |-> pricePivots[k].index,
      priceValue |-> pricePivots[k].value,
      rsiValue |-> FindRSIPivot(rsiPivots, pricePivots[k].index).value] :
        k \in {i \in 2..Len(pricePivots) :
                  PairDiverges(type, pricePivots[i], pricePivots[i - 1],
                               FindRSIPivot(rsiPivots, pricePivots[i].index),
                               FindRSIPivot(rsiPivots, pricePivots[i - 1].index),
                               minBars)}}

\* detectRegularBullishDivergence and its three siblings, told apart by type.
detectDivergence(type, pricePivotSeries, rsiPivotSeries, minBars) ==
    DivergencesAmong(type, SelectSeq(pricePivotSeries, IsPivot),
                     SelectSeq(rsiPivotSeries, IsPivot), minBars)

Recent(divergences, lookbackStart) ==
    {d \in divergences : d.priceIndex >= lookbackStart}

\* Variant: bearish divergences are looked at first.
DivergenceSignal_BearishFirst(recentRegularBullish, recentRegularBearish) ==
    IF recentRegularBearish # {} THEN "SELL"
    ELSE IF recentRegularBullish # {} THEN "BUY"
    ELSE "NONE"

DivergenceSignal(recentRegularBullish, recentRegularBearish) ==
    IF recentRegularBullish # {} THEN "BUY"
    ELSE IF recentRegularBearish # {} THEN "SELL"
    ELSE "NONE"

DivergenceRecord(recentRegularBullish, recentRegularBearish, recentHiddenBullish, recentHiddenBearish) ==
    [returned |-> "record",
     signal |-> DivergenceSignal(recentRegularBullish, recentRegularBearish),
     regularBullish |-> recentRegularBullish # {},
     regularBearish |-> recentRegularBearish # {},
     hiddenBullish |-> recentHiddenBullish # {},
     hiddenBearish |-> recentHiddenBearish # {},
     divergences |-> [regularBullish |-> recentRegularBullish,
                      regularBearish |-> recentRegularBearish,
                      hiddenBullish |-> recentHiddenBullish,
                      hiddenBearish |-> recentHiddenBearish]]

DivergencesFromPivots(pricePivotLows, pricePivotHighs, rsiPivotLows, rsiPivotHighs, cfg, lookbackStart) ==
    DivergenceRecord(
        Recent(detectDivergence("REGULAR_BULLISH", pricePivotLows, rsiPivotLows,
                                cfg.minPivotDistance), lookbackStart),
        Recent(detectDivergence("REGULAR_BEARISH", pricePivotHighs, rsiPivotHighs,
                                cfg.minPivotDistance), lookbackStart),
        Recent(detectDivergence("HIDDEN_BULLISH", pricePivotLows, rsiPivotLows,
                                cfg.minPivotDistance), lookbackStart),
        Recent(detectDivergence("HIDDEN_BEARISH", pricePivotHighs, rsiPivotHighs,
                                cfg.minPivotDistance), lookbackStart))

Lows(cs) == [i \in 1..Len(cs) |-> cs[i].low]
Highs(cs) == [i \in 1..Len(cs) |-> cs[i].high]

DivergencesFromRSI(cs, rsi, cfg) ==
    DivergencesFromPivots(
        findPivotLows(Lows(cs), cfg.pivotLeftBars, cfg.pivotRightBars),
        findPivotHighs(Highs(cs), cfg.pivotLeftBars, cfg.pivotRightBars),
        findPivotLows(rsi, cfg.pivotLeftBars, cfg.pivotRightBars),
        findPivotHighs(rsi, cfg.pivotLeftBars, cfg.pivotRightBars),
        cfg, Max(0, (Len(cs) - 1) - cfg.lookbackPeriod))

detectDivergences(cs, cfg) ==
    IF Len(cs) < cfg.rsiPeriod + cfg.pivotLeftBars + cfg.pivotRightBars + 10
    THEN [returned |-> "null"]
    ELSE DivergencesFromRSI(cs, calculateRSI(Closes(cs), cfg.rsiPeriod), cfg)

(***************************************************************************)
(* detectDivergences called on windows made of a quiet stretch followed by *)
(* candles of one shape at four price levels.                              *)
(***************************************************************************)
DivUnit == 2 ^ 6

DivCandle(level) ==
    [high |-> (level + 1) * DivUnit, low |-> (level - 1) * DivUnit,
     close |-> level * DivUnit]

DivLevels == 1..4
DivQuietLen == 3 + 4
DivFree == 7

DivWindows ==
    {[i \in 1..DivQuietLen |-> DivCandle(2)] \o [i \in 1..n |-> DivCandle(levels[i])] :
        levels \in [1..DivFree -> DivLevels], n \in {DivFree - 1, DivFree}}

DivDefaultLookback == 60

DivConfigs ==
    {[rsiPeriod |-> 2, pivotLeftBars |-> 1, pivotRightBars |-> 1,
      minPivotDistance |-> 2, lookbackPeriod |-> lookback] :
        lookback \in {DivDefaultLookback}}

DivInit ==
    /\ genIn \in {[candles |-> w, config |-> cfg] :
                     w \in DivWindows, cfg \in DivConfigs}
    /\ genPc = "call"
    /\ genOut = [returned |-> "null"]

DetectDivergences ==
    /\ genPc = "call"
    /\ genOut' = detectDivergences(genIn.candles, genIn.config)
    /\ genPc' = "done"
    /\ UNCHANGED genIn

SpecDivInit == DivInit /\ OthersIdle

SpecDivNext == DetectDivergences /\ UNCHANGED <<convVars, allVars, haVars, lupVars>>

SpecDiv == SpecDivInit /\ [][SpecDivNext]_vars

DivDone == genPc = "done" /\ genOut.returned = "record"

\* C12 as stated: BUY whenever an active regular bullish divergence exists,
\* SELL whenever an active regular bearish divergence exists, and None
\* (with the hidden flags reported) when only hidden divergences are active.
C12_Original ==
    DivDone =>
        /\ genOut.divergences.regularBullish # {} => genOut.signal = "BUY"
        /\ genOut.divergences.regularBearish # {} => genOut.signal = "SELL"
        /\ (/\ genOut.divergences.regularBullish = {}
            /\ genOut.divergences.regularBearish = {}) =>
              /\ genOut.signal = "NONE"
              /\ genOut.hiddenBullish = (genOut.divergences.hiddenBullish # {})
              /\ genOut.hiddenBearish = (genOut.divergences.hiddenBearish # {})

\* C12 amended: BUY whenever an active regular bullish divergence exists;
\* SELL whenever an active regular bearish divergence exists and no active
\* regular bullish one does; None when no regular divergence is active,
\* the hidden ones being reported in hiddenBullish / hiddenBearish.
C12_Amended ==
    DivDone =>
        /\ genOut.signal =
              IF genOut.divergences.regularBullish # {} THEN "BUY"
              ELSE IF genOut.divergences.regularBearish # {} THEN "SELL"
              ELSE "NONE"
        /\ genOut.hiddenBullish = (genOut.divergences.hiddenBullish # {})
        /\ genOut.hiddenBearish = (genOut.divergences.hiddenBearish # {})

\* Regular divergences of both polarities are active at once.
C12_Witness ==
    /\ DivDone
    /\ genOut.divergences.regularBullish # {}
    /\ genOut.divergences.regularBearish # {}
    /\ genOut.signal = "BUY"

\* Consecutive price pivot lows and the RSI pivot lows matched to them are
\* both non-decreasing.
PairInLockStep(current, prev, currentRSI, prevRSI) ==
    /\ current.value >= prev.value
    /\ (IsPivot(currentRSI) /\ IsPivot(prevRSI))
          => Num(currentRSI.value) >= Num(prevRSI.value)

LowsInLockStep(pricePivots, rsiPivots) ==
    \A k \in 2..Len(pricePivots) :
        PairInLockStep(pricePivots[k], pricePivots[k - 1],
                       FindRSIPivot(rsiPivots, pricePivots[k].index),
                       FindRSIPivot(rsiPivots, pricePivots[k - 1].index))

WindowInLockStep(cs, cfg) ==
    LowsInLockStep(
        SelectSeq(findPivotLows(Lows(cs), cfg.pivotLeftBars, cfg.pivotRightBars),
                  IsPivot),
        SelectSeq(findPivotLows(calculateRSI(Closes(cs), cfg.rsiPeriod),
                                cfg.pivotLeftBars, cfg.pivotRightBars),
                  IsPivot))

\* C13: no REGULAR_BULLISH divergence is reported for a window whose price
\* pivot lows and matched RSI pivot lows are non-decreasing pair by pair.
C13_LockStepNoRegularBullish ==
    (DivDone /\ WindowInLockStep(genIn.candles, genIn.config)) =>
        /\ genOut.divergences.regularBullish = {}
        /\ ~genOut.regularBullish
        /\ genOut.signal # "BUY"

SomePairMatched(pricePivots, rsiPivots, minBars) ==
    \E k \in 2..Len(pricePivots) :
        /\ IsPivot(FindRSIPivot(rsiPivots, pricePivots[k].index))
        /\ IsPivot(FindRSIPivot(rsiPivots, pricePivots[k - 1].index))
        /\ pricePivots[k].index - pricePivots[k - 1].index >= minBars

\* A window in lock-step that has a pair of price pivot lows far enough
\* apart, both matched by RSI pivot lows.
C13_Witness ==
    /\ DivDone
    /\ WindowInLockStep(genIn.candles, genIn.config)
    /\ SomePairMatched(
           SelectSeq(findPivotLows(Lows(genIn.candles),
                                   genIn.config.pivotLeftBars,
                                   genIn.config.pivotRightBars), IsPivot),
           SelectSeq(findPivotLows(calculateRSI(Closes(genIn.candles),
                                                genIn.config.rsiPeriod),
                                   genIn.config.pivotLeftBars,
                                   genIn.config.pivotRightBars), IsPivot),
           genIn.config.minPivotDistance)
    /\ genOut.divergences.regularBullish = {}

(***************************************************************************)
(* Whale detector (indicators/whale-detector.js).  Volumes enter the       *)
(* volume statistics as fixed-point integers (VolUnit per unit).  A VWAP   *)
(* entry is kept as the pair of sums whose quotient it is, and a price     *)
(* change as the pair (change, previous close), so that the comparisons    *)
(* with them are exact; multipliers and thresholds with decimals are kept  *)
(* in tenths.                                                              *)
(***************************************************************************)
VolUnit == 4 * 5

Volumes(cs) == [i \in 1..Len(cs) |-> cs[i].volume * VolUnit]

RECURSIVE TypicalVolumeSum(_, _, _)
\* 3 * totalTPV over candles a..b: the sum of (high + low + close) * volume.
TypicalVolumeSum(cs, a, b) ==
    IF a > b THEN 0
    ELSE (cs[b].high + cs[b].low + cs[b].close) * cs[b].volume
         + TypicalVolumeSum(cs, a, b - 1)

\* A vwap entry: totalTPV / totalVolume as [tpv3 / (3 * volume)]; volume 0
\* stands for null.
calculateVWAP(cs, period) ==
    [i \in 1..Len(cs) |->
        IF i - 1 < period - 1 THEN [tpv3 |-> 0, volume |-> 0]
        ELSE [tpv3 |-> TypicalVolumeSum(cs, i - period + 1, i),
              volume |-> VolumeSum(cs, i - period + 1, i)]]

\* currentVolume > avg + volumeMultiplier * stdDev
\*   && currentVolume > avg * minVolumeThreshold; the entry is the volume
\* ratio in hundredths, or null.
VolumeAnomalyAt(volume, avgVolume, stdDev, cfg) ==
    IF avgVolume = Null \/ stdDev = Null THEN Null
    ELSE IF /\ (volume - avgVolume) * 10 > cfg.volumeMultiplier * stdDev
            /\ volume * 10 > avgVolume * cfg.minVolumeThreshold
         THEN (volume * 100) \div avgVolume
    ELSE Null

detectVolumeAnomalies(volumes, volumeSMA, volumeStdDev, cfg) ==
    [i \in 1..Len(volumes) |->
        VolumeAnomalyAt(volumes[i], volumeSMA[i], volumeStdDev[i], cfg)]

NoPriceAction == [defined |-> FALSE]

\* Variant: the body must exceed the share, not reach it.
StrongBody_Strict(bodySize, totalRange, cfg) ==
    totalRange > 0 /\ bodySize * 10 > cfg.minBodyStrength * totalRange

\* bodyStrength >= minBodyStrength, bodyStrength being bodySize / totalRange
\* or 0 for a candle without range.
StrongBody(bodySize, totalRange, cfg) ==
    totalRange > 0 /\ bodySize * 10 >= cfg.minBodyStrength * totalRange

\* The entry analyzePriceAction makes for candle i >= 2 (1-based).
PriceActionAt(candle, prevClose, vwap) ==
    IF vwap.volume = 0 THEN NoPriceAction
    ELSE [defined |-> TRUE,
          priceChange |-> candle.close - prevClose,
          prevClose |-> prevClose,
          aboveVWAP |-> candle.close * 3 * vwap.volume > vwap.tpv3,
          belowVWAP |-> candle.close * 3 * vwap.volume < vwap.tpv3,
          bodySize |-> AbsVal(candle.close - candle.open),
          totalRange |-> candle.high - candle.low,
          bullishCandle |-> candle.close > candle.open,
          bearishCandle |-> candle.close < candle.open]

\* analyzePriceAction: entries for the second candle on, a null unshifted.
analyzePriceAction(cs, vwap) ==
    [i \in 1..(1 + Max(0, Len(cs) - 1)) |->
        IF i = 1 THEN NoPriceAction
        ELSE PriceActionAt(cs[i], cs[i - 1].close, vwap[i])]

\* Math.abs(priceChangePercent) >= minPriceChange, the minimum in tenths of
\* a per cent.
SignificantPriceMove(pa, cfg) ==
    AbsVal(pa.priceChange) * 1000 >= cfg.minPriceChange * pa.prevClose

WhaleSignal(pa, cfg) ==
    IF SignificantPriceMove(pa, cfg) /\ StrongBody(pa.bodySize, pa.totalRange, cfg)
    THEN IF pa.bullishCandle /\ pa.priceChange > 0 /\ pa.aboveVWAP THEN "BUY"
         ELSE IF pa.bearishCandle /\ pa.priceChange < 0 /\ pa.belowVWAP THEN "SELL"
         ELSE "null"
    ELSE "null"

WhaleRecord(volumeAnomaly, pa, currentVWAP, cfg) ==
    IF volumeAnomaly = Null \/ ~pa.defined \/ currentVWAP.volume = 0
    THEN [returned |-> "null"]
    ELSE [returned |-> "record",
          signal |-> WhaleSignal(pa, cfg),
          whaleDetected |-> TRUE,
          whaleType |-> IF WhaleSignal(pa, cfg) = "BUY" THEN "ACCUMULATION"
                        ELSE IF WhaleSignal(pa, cfg) = "SELL" THEN "DISTRIBUTION"
                        ELSE "null",
          volumeRatio |-> volumeAnomaly,
          vwap |-> currentVWAP,
          aboveVWAP |-> pa.aboveVWAP]

WhalesFrom(cs, anomalies, vwap, priceAction, cfg) ==
    WhaleRecord(anomalies[Len(cs)], priceAction[Len(cs)], vwap[Len(cs)], cfg)

WhalesFromVWAP(cs, volumes, vwap, cfg) ==
    WhalesFrom(cs,
               detectVolumeAnomalies(volumes,
                                     calculateSMA(volumes, cfg.volumePeriod),
                                     calculateStdDev(volumes, cfg.volumePeriod),
                                     cfg),
               vwap, analyzePriceAction(cs, vwap), cfg)

detectWhales(cs, cfg) ==
    IF Len(cs) < Max(cfg.volumePeriod, cfg.vwapPeriod) + 5
    THEN [returned |-> "null"]
    ELSE WhalesFromVWAP(cs, Volumes(cs), calculateVWAP(cs, cfg.vwapPeriod), cfg)

(***************************************************************************)
(* Windows for the whale detector: flat candles at WhaleBase with a volume *)
(* profile (base volume, the volume of one bar five bars before the last,  *)
(* the volume of the last bar), one candle that sets the previous close,   *)
(* and a free last candle.                                                 *)
(***************************************************************************)
WhaleBase == 10 * 100

WhaleCandle(o, h, l, c, v) ==
    [open |-> o, high |-> h, low |-> l, close |-> c, volume |-> v]

FlatBar(price, v) == WhaleCandle(price, price, price, price, v)

\* <<base volume, earlier bar's volume, last bar's volume>>
VolumeProfiles == {<<12, 12, 76>>, <<4, 63, 45>>, <<12, 12, 12>>, <<12, 12, 30>>}

WhaleFlatLens == {22, 23}

LastCandles ==
    {WhaleCandle(o, Max(o, c) + w, (IF o < c THEN o ELSE c) - w, c, 0) :
        o \in {WhaleBase - 10, WhaleBase, WhaleBase + 4},
        c \in {WhaleBase - 4, WhaleBase + 2, WhaleBase + 6, WhaleBase + 12},
        w \in {0, 2}}

WhaleWindow(flatLen, profile, prevPrice, last) ==
    [i \in 1..(flatLen + 2) |->
        IF i = flatLen + 2 THEN [last EXCEPT !.volume = profile[3]]
        ELSE IF i = flatLen + 1 THEN FlatBar(prevPrice, profile[1])
        ELSE IF i = flatLen - 3 THEN FlatBar(WhaleBase, profile[2])
        ELSE FlatBar(WhaleBase, profile[1])]

WhaleWindows ==
    {WhaleWindow(n, p, q, last) :
        n \in WhaleFlatLens, p \in VolumeProfiles,
        q \in {WhaleBase, WhaleBase + 10}, last \in LastCandles}

\* The defaults of detectWhales; decimals in tenths.
DefaultWhaleConfig ==
    [volumePeriod |-> 20, volumeMultiplier |-> 25, minVolumeThreshold |-> 15,
     vwapPeriod |-> 14, minPriceChange |-> 5, minBodyStrength |-> 6]

WhaleInit ==
    /\ genIn \in {[idle |-> FALSE, candles |-> w, config |-> DefaultWhaleConfig] :
                    w \in WhaleWindows}
    /\ genPc = "ready"
    /\ genOut = [returned |-> "null"]

DetectWhales ==
    /\ genPc = "ready"
    /\ genOut' = detectWhales(genIn.candles, genIn.config)
    /\ genPc' = "done"
    /\ UNCHANGED genIn

SpecWhaleInit == WhaleInit /\ OthersIdle

SpecWhaleNext ==
    /\ DetectWhales
    /\ UNCHANGED <<convVars, allVars, haVars, lupVars>>

SpecWhale == SpecWhaleInit /\ [][SpecWhaleNext]_vars

WhaleDone == genPc = "done" /\ ~genIn.idle /\ "vwapPeriod" \in DOMAIN genIn.config

LastOf(cs) == cs[Len(cs)]

\* The last bar's volume is five times the average volume of the twenty bars
\* ending at it.
FiveTimesAverage(cs) ==
    /\ Len(cs) >= 20
    /\ LastOf(cs).volume * 20 = 5 * VolumeSum(cs, Len(cs) - 19, Len(cs))

\* The last candle is bullish with a body of at least 60 % of its range.
StrongBullishCandle(cs) ==
    /\ LastOf(cs).close > LastOf(cs).open
    /\ LastOf(cs).high > LastOf(cs).low
    /\ (LastOf(cs).close - LastOf(cs).open) * 10
         >= 6 * (LastOf(cs).high - LastOf(cs).low)

\* The 14-bar VWAP exists at the last two bars, rises, and the last close
\* is above it.
AboveRisingVWAP(cs) ==
    /\ Len(cs) >= 15
    /\ VolumeSum(cs, Len(cs) - 13, Len(cs)) > 0
    /\ VolumeSum(cs, Len(cs) - 14, Len(cs) - 1) > 0
    /\ LastOf(cs).close * 3 * VolumeSum(cs, Len(cs) - 13, Len(cs))
         > TypicalVolumeSum(cs, Len(cs) - 13, Len(cs))
    /\ TypicalVolumeSum(cs, Len(cs) - 13, Len(cs))
         * VolumeSum(cs, Len(cs) - 14, Len(cs) - 1)
         > TypicalVolumeSum(cs, Len(cs) - 14, Len(cs) - 1)
           * VolumeSum(cs, Len(cs) - 13, Len(cs))

ClaimedWhaleBuy(cs) ==
    FiveTimesAverage(cs) /\ StrongBullishCandle(cs) /\ AboveRisingVWAP(cs)

RECURSIVE SquaredDeviationSum(_, _, _, _)
\* The sum over bars a..b of (20 * volume - total) ^ 2.
SquaredDeviationSum(cs, a, b, total) ==
    IF a > b THEN 0
    ELSE (20 * cs[b].volume - total) * (20 * cs[b].volume - total)
         + SquaredDeviationSum(cs, a, b - 1, total)

\* The last volume exceeds the 20-bar average by more than 2.5 population
\* standard deviations, in exact arithmetic:
\* 20 v - S > 0 and 4 * 20 * (20 v - S) ^ 2 > 25 * sum (20 v_i - S) ^ 2.
ExceedsDeviationBand(cs, total) ==
    /\ 20 * LastOf(cs).volume > total
    /\ 80 * (20 * LastOf(cs).volume - total) * (20 * LastOf(cs).volume - total)
         > 25 * SquaredDeviationSum(cs, Len(cs) - 19, Len(cs), total)

\* The last close is at least 0.5 % above the previous close.
ClosesHalfPercentUp(cs) ==
    (LastOf(cs).close - cs[Len(cs) - 1].close) * 1000 >= 5 * cs[Len(cs) - 1].close

\* C11 as stated: in every window of at least 25 candles whose last bar has
\* five times the 20-bar average volume, is bullish with a body of at least
\* 60 % of its range and closes above a rising VWAP, the whale detector
\* returns a BUY.
C11_Original ==
    (WhaleDone /\ Len(genIn.candles) >= 25 /\ ClaimedWhaleBuy(genIn.candles))
        => (genOut.returned = "record" /\ genOut.signal = "BUY")

\* C11 amended: in every window of at least 25 candles whose last bar has
\* five times the 20-bar average volume and more than that average plus 2.5
\* standard deviations of those volumes, is bullish with a body of at least
\* 60 % of its range, closes above a rising VWAP and at least 0.5 % above the
\* previous close, the whale detector returns a BUY.
C11_Amended ==
    (/\ WhaleDone
     /\ Len(genIn.candles) >= 25
     /\ ClaimedWhaleBuy(genIn.candles)
     /\ ExceedsDeviationBand(genIn.candles,
                             VolumeSum(genIn.candles, Len(genIn.candles) - 19,
                                       Len(genIn.candles)))
     /\ ClosesHalfPercentUp(genIn.candles))
        => (genOut.returned = "record" /\ genOut.signal = "BUY")

\* A window of the amended claim's kind, whose body is exactly 60 % of the
\* range, has been analysed and the detector returned a BUY.
C11_Witness ==
    /\ WhaleDone
    /\ Len(genIn.candles) >= 25
    /\ ClaimedWhaleBuy(genIn.candles)
    /\ ExceedsDeviationBand(genIn.candles,
                            VolumeSum(genIn.candles, Len(genIn.candles) - 19,
                                      Len(genIn.candles)))
    /\ ClosesHalfPercentUp(genIn.candles)
    /\ (LastOf(genIn.candles).close - LastOf(genIn.candles).open) * 10
         = 6 * (LastOf(genIn.candles).high - LastOf(genIn.candles).low)
    /\ genOut.returned = "record"
    /\ genOut.signal = "BUY"

(***************************************************************************)
(* The four pivot series of detectDivergences (divergences.js:247-267),    *)
(* computed on windows whose first candles are free and whose remaining    *)
(* candles are quiet, so that the RSI warm-up lies inside pivot windows.   *)
(***************************************************************************)
PivotSeries(cs, rsi, cfg) ==
    [returned |-> "pivots",
     lows |-> Lows(cs),
     highs |-> Highs(cs),
     rsi |-> rsi,
     pricePivotLows |-> findPivotLows(Lows(cs), cfg.pivotLeftBars, cfg.pivotRightBars),
     pricePivotHighs |-> findPivotHighs(Highs(cs), cfg.pivotLeftBars, cfg.pivotRightBars),
     rsiPivotLows |-> findPivotLows(rsi, cfg.pivotLeftBars, cfg.pivotRightBars),
     rsiPivotHighs |-> findPivotHighs(rsi, cfg.pivotLeftBars, cfg.pivotRightBars)]

DivergencePivots(cs, cfg) ==
    IF Len(cs) < cfg.rsiPeriod + cfg.pivotLeftBars + cfg.pivotRightBars + 10
    THEN [returned |-> "null"]
    ELSE PivotSeries(cs, calculateRSI(Closes(cs), cfg.rsiPeriod), cfg)

PivFree == 4
PivQuietLen == 6 + 6

PivWindows ==
    {[i \in 1..PivFree |-> DivCandle(levels[i])] \o [i \in 1..n |-> DivCandle(2)] :
        levels \in [1..PivFree -> DivLevels], n \in {PivQuietLen - 1, PivQuietLen}}

PivConfigs ==
    {[rsiPeriod |-> 2, pivotLeftBars |-> l, pivotRightBars |-> r,
      minPivotDistance |-> 2, lookbackPeriod |-> DivDefaultLookback] :
        l \in 1..2, r \in 1..2}

PivInit ==
    /\ genIn \in {[candles |-> w, config |-> cfg] :
                     w \in PivWindows, cfg \in PivConfigs}
    /\ genPc = "call"
    /\ genOut = [returned |-> "null"]

FindPivots ==
    /\ genPc = "call"
    /\ genOut' = DivergencePivots(genIn.candles, genIn.config)
    /\ genPc' = "done"
    /\ UNCHANGED genIn

SpecPivInit == PivInit /\ OthersIdle

SpecPivNext == FindPivots /\ UNCHANGED <<convVars, allVars, haVars, lupVars>>

SpecPiv == SpecPivInit /\ [][SpecPivNext]_vars

PivDone == genPc = "done" /\ genOut.returned = "pivots"

\* Entry i of values has leftBars entries before it and rightBars after it,
\* all of them defined and strictly dominated by it, and is defined itself.
StrictExtremum(values, i, leftBars, rightBars, kind) ==
    /\ i - leftBars >= 1
    /\ i + rightBars <= Len(values)
    /\ values[i] # Null
    /\ \A j \in ((i - leftBars)..(i + rightBars)) \ {i} :
          /\ values[j] # Null
          /\ IF kind = "LOW" THEN values[j] > values[i] ELSE values[j] < values[i]

OnlyStrictExtrema(values, pivots, cfg, kind) ==
    \A i \in 1..Len(pivots) :
        IsPivot(pivots[i]) =>
            StrictExtremum(values, i, cfg.pivotLeftBars, cfg.pivotRightBars, kind)

\* C21: a pivot, on price or on RSI, is reported at an index only if all
\* leftBars entries before it and all rightBars entries after it are defined
\* values strictly dominated by the entry; a position with an equal or an
\* undefined neighbour in its window is never a pivot.
C21_PivotsAreStrictExtrema ==
    PivDone =>
        /\ OnlyStrictExtrema(genOut.lows, genOut.pricePivotLows, genIn.config, "LOW")
        /\ OnlyStrictExtrema(genOut.highs, genOut.pricePivotHighs, genIn.config, "HIGH")
        /\ OnlyStrictExtrema(genOut.rsi, genOut.rsiPivotLows, genIn.config, "LOW")
        /\ OnlyStrictExtrema(genOut.rsi, genOut.rsiPivotHighs, genIn.config, "HIGH")

(***************************************************************************)
(* The seven evaluations of calculateAllSignals over one candle window,    *)
(* run in any order, twice.  Each wrapper `results.x = generatorX(candles, *)
(* xConfig)` (index.js:129-183) reads the window and its own configuration *)
(* and assigns one field of results; no generator, and no function of      *)
(* utils.js, assigns to candles, to a candle's field or to a module-level   *)
(* variable.  The windows are shorter than the minimum of the TL, Koncorde  *)
(* and Lupown generators, which return null for them; the other four are    *)
(* called with configurations of short periods.                            *)
(***************************************************************************)
SharedCandle(o, h, l, c, v) ==
    [open |-> o, high |-> h, low |-> l, close |-> c, volume |-> v]

SharedQuiet == SharedCandle(20, 30, 10, 20, 1)

SharedCandles ==
    {SharedCandle(10, 30, 10, 30, 3),
     SharedCandle(30, 30, 10, 10, 1),
     SharedCandle(50, 50, 30, 30, 2)}

SharedQuietLen == 5 + 6
SharedFree == 3

SharedWindows ==
    {[i \in 1..SharedQuietLen |-> SharedQuiet] \o suffix :
        suffix \in [1..SharedFree -> SharedCandles]}

SharedOptions ==
    [heikinAshiConfig |-> [emaLength |-> 1],
     whaleConfig |-> [volumePeriod |-> 4, volumeMultiplier |-> 10,
                      minVolumeThreshold |-> 15, vwapPeriod |-> 3,
                      minPriceChange |-> 5, minBodyStrength |-> 6],
     divergencesConfig |-> [rsiPeriod |-> 2, pivotLeftBars |-> 1,
                            pivotRightBars |-> 1, minPivotDistance |-> 2,
                            lookbackPeriod |-> DivDefaultLookback],
     orderBlocksConfig |-> [atrPeriod |-> 1, minMoveMultiplier |-> 5,
                            minConsecutiveBars |-> 2,
                            minVolumeRatio |-> ObDefaultVolumeRatio,
                            lookbackPeriod |-> 2,
                            testThreshold |-> ObDefaultTestThreshold,
                            maxOrderBlockAge |-> ObDefaultMaxAge]]

\* A generator called with its default configuration on a window below its
\* minimum returns null; above it, a record not followed here.
DefaultGenerator(g, cs) ==
    IF Len(cs) < MinRequired[g] THEN [returned |-> "null"]
    ELSE [returned |-> "record"]

\* The right-hand side of the assignment in generator g's wrapper.
GeneratorValue(g, cs, options) ==
    CASE g = "heikinAshi" ->
            calculateHeikinAshiSignals(cs, options.heikinAshiConfig.emaLength)
      [] g = "whales" -> detectWhales(cs, options.whaleConfig)
      [] g = "divergences" -> detectDivergences(cs, options.divergencesConfig)
      [] g = "orderBlocks" -> detectOrderBlocks(cs, options.orderBlocksConfig)
      [] OTHER -> DefaultGenerator(g, cs)

\* Variant: the whale wrapper assigns the divergences field.
ResultField_Shared(g) == IF g = "whales" THEN "divergences" ELSE g

\* The field of results that generator g's wrapper assigns.
ResultField(g) == g

EmptyResults == [g \in GenNames |-> [returned |-> "null"]]

IndepInit ==
    /\ genIn \in {[candles |-> w, options |-> SharedOptions] : w \in SharedWindows}
    /\ genPc = "first"
    /\ genOut = [results |-> EmptyResults, evaluated |-> {},
                 first |-> EmptyResults]

\* One wrapper runs: it reads the window and assigns its field.
EvaluateGenerator(g) ==
    /\ genPc \in {"first", "second"}
    /\ g \notin genOut.evaluated
    /\ genOut' = [genOut EXCEPT
                    !.results[ResultField(g)] =
                        GeneratorValue(g, genIn.candles, genIn.options),
                    !.evaluated = @ \cup {g}]
    /\ UNCHANGED <<genIn, genPc>>

\* The first call returns its record; the call is repeated on the same
\* candles with a fresh results object.
RepeatCall ==
    /\ genPc = "first"
    /\ genOut.evaluated = GenNames
    /\ genOut' = [results |-> EmptyResults, evaluated |-> {},
                  first |-> genOut.results]
    /\ genPc' = "second"
    /\ UNCHANGED genIn

\* The second call returns its record.
ReturnSecond ==
    /\ genPc = "second"
    /\ genOut.evaluated = GenNames
    /\ genPc' = "returned"
    /\ UNCHANGED <<genIn, genOut>>

IndepNext ==
    \/ \E g \in GenNames : EvaluateGenerator(g)
    \/ RepeatCall
    \/ ReturnSecond

SpecIndepInit == IndepInit /\ OthersIdle

SpecIndepNext == IndepNext /\ UNCHANGED <<convVars, allVars, haVars, lupVars>>

SpecIndep == SpecIndepInit /\ [][SpecIndepNext]_vars

\* The record of evaluating the generators one after the other in source
\* order on the window as it was handed in.
InSourceOrder(cs, options) ==
    [g \in GenNames |-> GeneratorValue(g, cs, options)]

Giving(side) == {g \in GenNames : signals[g].signal = side}

RECURSIVE WeightSum(_)
WeightSum(gs) ==
    IF gs = {} THEN 0
    ELSE DefaultWeights[CHOOSE g \in gs : TRUE]
         + WeightSum(gs \ {CHOOSE g \in gs : TRUE})

\* The default weights of the indicators giving `side`, in tenths, plus 0.5
\* for a Lupown diamond and 0.3 for a regular divergence of that side.
SideWeight(side) ==
    WeightSum(Giving(side))
    + (IF signals.lupown.signal = side
          /\ signals.lupown.diamond = (IF side = "BUY" THEN "BULLISH" ELSE "BEARISH")
       THEN 5 ELSE 0)
    + (IF signals.divergences.signal = side
          /\ (IF side = "BUY" THEN signals.divergences.regularBullish
                              ELSE signals.divergences.regularBearish)
       THEN 3 ELSE 0)

InDefaultConfiguration == ConvDone /\ config = DefaultConfig

TransformCandles ==
    {SharedCandle(10, 10, 10, 10, 1),
     SharedCandle(10, 30, 10, 30, 1),
     SharedCandle(20, 40, 20, 40, 1),
     SharedCandle(50, 50, 30, 30, 1)}

MaxTransformLen == 4

TransformWindows == UNION {[1..n -> TransformCandles] : n \in 1..MaxTransformLen}

TransformInit ==
    /\ genIn \in {[candles |-> w] : w \in TransformWindows}
    /\ genPc = "call"
    /\ genOut = [returned |-> "null"]

\* haCandles, as the two series of its haOpen and haClose fields.
CalculateHeikinAshi ==
    /\ genPc = "call"
    /\ genOut' = [returned |-> "haCandles",
                  haOpen |-> HaOpens(genIn.candles, 1, <<>>),
                  haClose |-> calculateHeikinAshi(genIn.candles)]
    /\ genPc' = "done"
    /\ UNCHANGED genIn

SpecTransformInit == TransformInit /\ OthersIdle

SpecTransformNext ==
    CalculateHeikinAshi /\ UNCHANGED <<convVars, allVars, haVars, lupVars>>

SpecTransform == SpecTransformInit /\ [][SpecTransformNext]_vars

TransformDone == genPc = "done" /\ genOut.returned = "haCandles"

\* C24: haOpen[0] = ohlc4[0] and, for every i >= 1, haOpen[i] is the mean of
\* the previous bar's OHLC4 and the previous bar's haOpen.
C24_OpenFromPreviousBar ==
    TransformDone =>
        /\ genOut.haOpen[1] = ohlc4(genIn.candles[1])
        /\ \A i \in 2..Len(genIn.candles) :
              genOut.haOpen[i] =
                  (ohlc4(genIn.candles[i - 1]) + genOut.haOpen[i - 1]) \div 2

(***************************************************************************)
(* The money-flow index against Wilder's smoothing (specification          *)
(* SpecPrim).                                                              *)
(***************************************************************************)
\* The positive (or negative) money flow of bar j >= 2.
MoneyFlow(cs, j, positive) ==
    IF (typicalPrice(cs[j]) > typicalPrice(cs[j - 1])) = positive
    THEN typicalPrice(cs[j]) * cs[j].volume ELSE 0

RECURSIVE PlainFlowSum(_, _, _, _)
PlainFlowSum(cs, a, b, positive) ==
    IF a > b THEN 0
    ELSE MoneyFlow(cs, b, positive) + PlainFlowSum(cs, a, b - 1, positive)

RECURSIVE WilderFlow(_, _, _, _)
\* Wilder's average of the flows at 1-based index i >= p + 1, times
\* p ^ (i - p): the plain sum of the first p flows at i = p + 1, thereafter
\* avg[i] = (avg[i-1] * (p - 1) + x[i]) / p.
WilderFlow(cs, p, i, positive) ==
    IF i = p + 1 THEN PlainFlowSum(cs, 2, p + 1, positive)
    ELSE WilderFlow(cs, p, i - 1, positive) * (p - 1)
         + MoneyFlow(cs, i, positive) * (p ^ (i - p - 1))

MFIDefinedAt(i) ==
    /\ PrimDone
    /\ i \in 1..Len(genOut.mfi)
    /\ genOut.mfi[i] # Null

\* C25 as stated: every defined MFI entry is the index of the
\* Wilder-smoothed positive and negative money-flow averages.
C25_Original ==
    \A i \in 1..MaxPrimLen + 1 :
        MFIDefinedAt(i) =>
            genOut.mfi[i] = MFIValue(WilderFlow(genIn.candles, genIn.period, i, TRUE),
                                     WilderFlow(genIn.candles, genIn.period, i, FALSE))

\* C25 amended: calculateMFI uses plain sums: the MFI at index i is the index
\* of the sums of the positive and of the negative money flows of the last p
\* bars, so it is the MFI of the p + 1 bars ending at i alone.
C25_Amended ==
    \A i \in 1..MaxPrimLen + 1 :
        MFIDefinedAt(i) =>
            /\ genOut.mfi[i] =
                  MFIValue(PlainFlowSum(genIn.candles, i - genIn.period + 1, i, TRUE),
                           PlainFlowSum(genIn.candles, i - genIn.period + 1, i, FALSE))
            /\ genOut.mfi[i] =
                  calculateMFI(SubSeq(genIn.candles, i - genIn.period, i),
                               genIn.period)[genIn.period + 1]

\* An MFI entry past the first defined one that differs from the
\* Wilder-smoothed value and is neither 0 nor 100.
C25_Witness ==
    \E i \in 1..MaxPrimLen :
        /\ MFIDefinedAt(i)
        /\ i > genIn.period + 1
        /\ genOut.mfi[i] # MFIValue(WilderFlow(genIn.candles, genIn.period, i, TRUE),
                                    WilderFlow(genIn.candles, genIn.period, i, FALSE))
        /\ genOut.mfi[i] > 0
        /\ genOut.mfi[i] < FullRSI

(***************************************************************************)
(* The RSI pivot matched to a price pivot (specification SpecDiv).         *)
(***************************************************************************)
\* No RSI pivot is nearer to the price pivot than the matched one.
IsNearest(matched, rsiPivots, pricePivot) ==
    IsPivot(matched) =>
        \A j \in 1..Len(rsiPivots) :
            AbsVal(rsiPivots[j].index - pricePivot.index)
                >= AbsVal(matched.index - pricePivot.index)

\* For every price pivot the detect... loop looks at (there are at least
\* two), the RSI pivot found for it is a nearest one.
NearestMatched(pricePivots, rsiPivots) ==
    Len(pricePivots) >= 2 =>
        \A k \in 1..Len(pricePivots) :
            IsNearest(FindRSIPivot(rsiPivots, pricePivots[k].index),
                      rsiPivots, pricePivots[k])

NearestMatchedIn(cs, rsi, cfg) ==
    /\ NearestMatched(
           SelectSeq(findPivotLows(Lows(cs), cfg.pivotLeftBars, cfg.pivotRightBars),
                     IsPivot),
           SelectSeq(findPivotLows(rsi, cfg.pivotLeftBars, cfg.pivotRightBars),
                     IsPivot))
    /\ NearestMatched(
           SelectSeq(findPivotHighs(Highs(cs), cfg.pivotLeftBars, cfg.pivotRightBars),
                     IsPivot),
           SelectSeq(findPivotHighs(rsi, cfg.pivotLeftBars, cfg.pivotRightBars),
                     IsPivot))

\* C26: the RSI pivot matched to a price pivot is the RSI pivot of minimal
\* index distance among those within 2 bars of it; a farther RSI pivot is
\* never chosen while a nearer one exists.
C26_NearestRSIPivot ==
    DivDone =>
        NearestMatchedIn(genIn.candles,
                         calculateRSI(Closes(genIn.candles), genIn.config.rsiPeriod),
                         genIn.config)

(***************************************************************************)
(* The volume test of an order block against the mean of its trailing      *)
(* window (specification SpecOB).                                          *)
(***************************************************************************)
\* The number of bars in the trailing window of the candle at 0-based
\* index j: the up-to-20 bars before it.
TrailingCount(j) == IF j < 20 THEN j ELSE 20

\* block.volume > minVolumeRatio * (arithmetic mean of the trailing window)
ExceedsTrailingMean(cs, block, cfg) ==
    block.volume * TrailingCount(block.index) * 10
        > cfg.minVolumeRatio
          * VolumeSum(cs, block.index + 1 - TrailingCount(block.index), block.index)

\* C27: a candle is marked an order block only if its volume exceeds
\* minVolumeRatio times the arithmetic mean of the volumes of the up-to-20
\* bars preceding it, also where fewer than 20 bars precede it.
C27_VolumeAboveTrailingMean ==
    ObDone =>
        \A blocks \in {genOut.allBullishOBs, genOut.allBearishOBs} :
            \A k \in 1..Len(blocks) :
                ExceedsTrailingMean(genIn.candles, blocks[k], genIn.config)

(***************************************************************************)
(* TL signals (part_005).  The smoothed sums carry TlScale units per price *)
(* unit; +DI, -DI, DX, ADX and the momentum are kept in hundredths of a    *)
(* per cent; a division rounds down.                                       *)
(***************************************************************************)
TlScale == 2 ^ 6

\* plusDM[i] / minusDM[i] of calculateDirectionalMovement (1-based i).
PlusDM(cs, i) ==
    IF i = 1 THEN 0
    ELSE IF cs[i].high - cs[i - 1].high > cs[i - 1].low - cs[i].low
            /\ cs[i].high - cs[i - 1].high > 0
         THEN cs[i].high - cs[i - 1].high
    ELSE 0

MinusDM(cs, i) ==
    IF i = 1 THEN 0
    ELSE IF cs[i].high - cs[i - 1].high > cs[i - 1].low - cs[i].low
            /\ cs[i].high - cs[i - 1].high > 0
         THEN 0
    ELSE IF cs[i - 1].low - cs[i].low > cs[i].high - cs[i - 1].high
            /\ cs[i - 1].low - cs[i].low > 0
         THEN cs[i - 1].low - cs[i].low
    ELSE 0

RECURSIVE WilderRest(_, _, _, _)
\* The third branch of wilderSmoothing: prev - prev / period + values[i].
WilderRest(values, period, i, smoothed) ==
    IF i > Len(values) THEN smoothed
    ELSE WilderRest(values, period, i + 1,
                    Append(smoothed,
                           smoothed[i - 1] - (smoothed[i - 1] \div period)
                               + values[i]))

wilderSmoothing(values, period) ==
    WilderRest(values, period, period + 1,
               Append(NullSeries(period - 1), SumRange(values, 1, period)))

\* (smoothedDM / smoothedTR) * 100, null where smoothedTR is null or 0.
DirectionalIndex(smoothedDM, smoothedTR) ==
    [i \in 1..Len(smoothedTR) |->
        IF smoothedTR[i] = Null \/ smoothedTR[i] = 0 THEN Null
        ELSE (smoothedDM[i] * 100 * 100) \div smoothedTR[i]]

DXAt(plus, minus) ==
    IF plus = Null \/ minus = Null THEN Null
    ELSE IF plus + minus = 0 THEN 0
    ELSE (AbsVal(plus - minus) * 100 * 100) \div (plus + minus)

RECURSIVE ADXLoop(_, _, _, _, _, _)
\* The loop that smooths DX into ADX; adx holds the entries before i.
ADXLoop(dx, period, i, adxSum, adxCount, adx) ==
    IF i > Len(dx) THEN adx
    ELSE IF dx[i] = Null
         THEN ADXLoop(dx, period, i + 1, adxSum, adxCount, Append(adx, Null))
    ELSE IF adxCount < period
         THEN ADXLoop(dx, period, i + 1, adxSum + dx[i], adxCount + 1,
                      Append(adx, IF adxCount + 1 = period
                                  THEN (adxSum + dx[i]) \div period
                                  ELSE Null))
    ELSE ADXLoop(dx, period, i + 1, adxSum, adxCount,
                 Append(adx, (Num(adx[i - 1]) * (period - 1) + dx[i]) \div period))

ADXFromDI(plusDI, minusDI, period) ==
    [adx |-> ADXLoop([i \in 1..Len(plusDI) |-> DXAt(plusDI[i], minusDI[i])],
                     period, 1, 0, 0, <<>>),
     plusDI |-> plusDI,
     minusDI |-> minusDI]

ADXFromSmoothed(smoothedTR, smoothedPlusDM, smoothedMinusDM, period) ==
    ADXFromDI(DirectionalIndex(smoothedPlusDM, smoothedTR),
              DirectionalIndex(smoothedMinusDM, smoothedTR), period)

calculateADX(cs, period) ==
    ADXFromSmoothed(
        wilderSmoothing([i \in 1..Len(cs) |-> TrueRange(cs, i) * TlScale], period),
        wilderSmoothing([i \in 1..Len(cs) |-> PlusDM(cs, i) * TlScale], period),
        wilderSmoothing([i \in 1..Len(cs) |-> MinusDM(cs, i) * TlScale], period),
        period)

\* The entry detectPivots pushes to pivotHighs (kind "HIGH") or pivotLows
\* (kind "LOW") for position i (1-based): TRUE for a value, FALSE for null.
TLPivotAt(cs, i, leftBars, rightBars, kind) ==
    /\ ~(i - 1 < leftBars \/ i - 1 >= Len(cs) - rightBars)
    /\ \A j \in ((i - leftBars)..(i + rightBars)) \ {i} :
          IF kind = "HIGH" THEN cs[j].high < cs[i].high
          ELSE cs[j].low > cs[i].low

\* momentum[i]: the change of the close over `period` bars in per cent.
MomentumAt(cs, i, period) ==
    IF i - 1 < period THEN Null
    ELSE ((cs[i].close - cs[i - period].close) * 100 * 100)
             \div cs[i - period].close

\* Variant: the pivot conditions are left out of the decision.
TLDecision_NoPivot(adx, plusDI, minusDI, momentum, isPivotHigh, isPivotLow, cfg) ==
    IF adx > cfg.adxThreshold * 100 /\ Num(plusDI) > Num(minusDI) /\ momentum > 0
    THEN "BUY"
    ELSE IF adx > cfg.adxThreshold * 100 /\ Num(minusDI) > Num(plusDI)
            /\ momentum < 0
    THEN "SELL"
    ELSE "null"

\* The signal conditions of calculateTLSignals.
TLDecision(adx, plusDI, minusDI, momentum, isPivotHigh, isPivotLow, cfg) ==
    IF adx > cfg.adxThreshold * 100 /\ Num(plusDI) > Num(minusDI) /\ momentum > 0
       /\ isPivotLow
    THEN "BUY"
    ELSE IF adx > cfg.adxThreshold * 100 /\ Num(minusDI) > Num(plusDI)
            /\ momentum < 0 /\ isPivotHigh
    THEN "SELL"
    ELSE "null"

TLRecord(adx, plusDI, minusDI, momentum, isPivotHigh, isPivotLow, cfg) ==
    IF adx = Null \/ momentum = Null THEN [returned |-> "null"]
    ELSE [returned |-> "record",
          signal |-> TLDecision(adx, plusDI, minusDI, momentum,
                                isPivotHigh, isPivotLow, cfg),
          adx |-> adx, plusDI |-> plusDI, minusDI |-> minusDI,
          momentum |-> momentum,
          isPivotHigh |-> isPivotHigh, isPivotLow |-> isPivotLow]

TLFromADX(cs, lines, cfg) ==
    TLRecord(lines.adx[Len(cs)], lines.plusDI[Len(cs)], lines.minusDI[Len(cs)],
             MomentumAt(cs, Len(cs), cfg.momentumPeriod),
             TLPivotAt(cs, Len(cs), cfg.pivotLeftBars, cfg.pivotRightBars, "HIGH"),
             TLPivotAt(cs, Len(cs), cfg.pivotLeftBars, cfg.pivotRightBars, "LOW"),
             cfg)

calculateTLSignals(cs, cfg) ==
    IF Len(cs) < cfg.adxLength + cfg.momentumPeriod
                   + cfg.pivotLeftBars + cfg.pivotRightBars
    THEN [returned |-> "null"]
    ELSE TLFromADX(cs, calculateADX(cs, cfg.adxLength), cfg)

(***************************************************************************)
(* calculateTLSignals called on short windows of four candle shapes with   *)
(* short periods and 0, 1 or 2 right-hand pivot bars.                      *)
(***************************************************************************)
TlCandle(h, l, c) == [high |-> h, low |-> l, close |-> c]

TlCandles ==
    {TlCandle(30, 20, 25), TlCandle(40, 30, 35),
     TlCandle(70, 10, 50), TlCandle(35, 5, 8)}

TlMinLen == 2 + 2
TlMaxLen == 6

TlWindows == UNION {[1..n -> TlCandles] : n \in TlMinLen..TlMaxLen}

TlDefaultThreshold == 25

TlConfigs ==
    {[adxLength |-> a, adxThreshold |-> TlDefaultThreshold, momentumPeriod |-> 1,
      pivotLeftBars |-> 1, pivotRightBars |-> r] : a \in 1..2, r \in 0..2}

TlInit ==
    /\ genIn \in {[candles |-> w, config |-> cfg] :
                     w \in TlWindows, cfg \in TlConfigs}
    /\ genPc = "call"
    /\ genOut = [returned |-> "null"]

CalculateTLSignals ==
    /\ genPc = "call"
    /\ genOut' = calculateTLSignals(genIn.candles, genIn.config)
    /\ genPc' = "done"
    /\ UNCHANGED genIn

SpecTLInit == TlInit /\ OthersIdle

SpecTLNext == CalculateTLSignals /\ UNCHANGED <<convVars, allVars, haVars, lupVars>>

SpecTL == SpecTLInit /\ [][SpecTLNext]_vars

TlDone == genPc = "done" /\ "adxLength" \in DOMAIN genIn.config

\* C28: with pivotRightBars >= 1 the latest bar is never a pivot, and
\* calculateTLSignals never returns BUY or SELL.
C28_NoSignalWithRightBars ==
    (TlDone /\ genIn.config.pivotRightBars >= 1 /\ genOut.returned = "record") =>
        /\ genOut.signal = "null"
        /\ ~genOut.isPivotLow
        /\ ~genOut.isPivotHigh

\* With one right-hand bar, a record whose trend, directional and momentum
\* conditions for BUY all hold, on a last bar with the lowest low, came back
\* without a signal.
C28_Witness ==
    /\ TlDone
    /\ genIn.config.pivotRightBars = 1
    /\ genOut.returned = "record"
    /\ genOut.adx > genIn.config.adxThreshold * 100
    /\ genOut.plusDI > genOut.minusDI
    /\ genOut.momentum > 0
    /\ genIn.candles[Len(genIn.candles)].low < genIn.candles[Len(genIn.candles) - 1].low
    /\ genOut.signal = "null"

(***************************************************************************)
(* Ranges of the aggregator's result (specification SpecConv).             *)
(***************************************************************************)
\* C29: in both modes the confidence lies in [0, 100] and neither buyCount
\* nor sellCount exceeds the number of indicators, 7; a Lupown diamond is
\* not counted in addition to the indicators giving the side.
C29_ConfidenceAndCountsInRange ==
    ConvDone =>
        /\ convResult.confidence >= 0
        /\ convResult.confidence <= FullConfidence
        /\ convResult.convergence.buyCount <= NumIndicators
        /\ convResult.convergence.sellCount <= NumIndicators
        /\ convResult.convergence.buyCount <= Cardinality(Giving("BUY"))
        /\ convResult.convergence.sellCount <= Cardinality(Giving("SELL"))

(***************************************************************************)
(* Multi-account paper trading (multi-account-trading.js,                  *)
(* account-manager.js, strategies/indicator-strategy.js).                  *)
(*                                                                         *)
(* paper_trades is the sequence of rows in insertion order; created_at     *)
(* (DEFAULT NOW()) is the row's position in it.  A row keeps, besides the  *)
(* columns the query reads, the cycle that inserted it and, as             *)
(* "position", the created_at of the buy row whose btc_amount it trades.   *)
(* executeMultiAccountTrading awaits every account's                       *)
(* executeAccountTrading before it returns, so a cycle starts only when    *)
(* the previous one has returned; inside a cycle the accounts' calls       *)
(* interleave at their awaits.                                             *)
(***************************************************************************)
Accounts == {1, 2}

MaxCycles == 3

TradeSignals == {"BUY", "SELL", "null"}

NoPosition == [created_at |-> 0]

RowsOf(trades, accountId, tradeType) == {i \in 1..Len(trades) : trades[i].account_id = accountId /\ trades[i].trade_type = tradeType}

Latest(rows) == CHOOSE i \in rows : \A j \in rows : j <= i

\* SELECT COALESCE(MAX(created_at), '1970-01-01') ... trade_type = 'sell'
LastSellAt(trades, accountId) == IF RowsOf(trades, accountId, "sell") = {} THEN 0 ELSE Latest(RowsOf(trades, accountId, "sell"))

BuysSince(trades, accountId, since) == {i \in RowsOf(trades, accountId, "buy") : i > since}

getAccountActivePosition_AnyBuy(trades, accountId) == IF RowsOf(trades, accountId, "buy") = {} THEN NoPosition ELSE trades[Latest(RowsOf(trades, accountId, "buy"))]

getAccountActivePosition(trades, accountId) == IF BuysSince(trades, accountId, LastSellAt(trades, accountId)) = {} THEN NoPosition ELSE trades[Latest(BuysSince(trades, accountId, LastSellAt(trades, accountId)))]

Truthy(activePosition) == activePosition # NoPosition

shouldBuy(signal, activePosition) == ~Truthy(activePosition) /\ signal = "BUY"

shouldSell(signal, activePosition) == Truthy(activePosition) /\ signal = "SELL"

TradeAction(signal, activePosition) ==
    IF shouldSell(signal, activePosition) /\ Truthy(activePosition) THEN "sell"
    ELSE IF shouldBuy(signal, activePosition) /\ ~Truthy(activePosition) THEN "buy"
    ELSE "null"

TradeRow(trades, accountId, tradeType, activePosition, cycle) ==
    [account_id |-> accountId, trade_type |-> tradeType,
     created_at |-> Len(trades) + 1, cycle |-> cycle,
     position   |-> IF tradeType = "sell" THEN activePosition.created_at
                    ELSE Len(trades) + 1]

saveAccountTrade(trades, accountId, tradeType, activePosition, cycle) == Append(trades, TradeRow(trades, accountId, tradeType, activePosition, cycle))

TradeInit ==
    /\ genIn = [cycle |-> 0, signal |-> [a \in Accounts |-> "null"]]
    /\ genPc = [a \in Accounts |-> "returned"]
    /\ genOut = [paper_trades   |-> <<>>,
                 activePosition |-> [a \in Accounts |-> NoPosition],
                 action         |-> [a \in Accounts |-> "null"]]

\* executeMultiAccountTrading up to the Promise.all over the accounts
ExecuteMultiAccountTrading ==
    /\ \A a \in Accounts : genPc[a] = "returned"
    /\ genIn.cycle < MaxCycles
    /\ \E sig \in [Accounts -> TradeSignals] :
           genIn' = [cycle |-> genIn.cycle + 1, signal |-> sig]
    /\ genPc' = [a \in Accounts |-> "called"]
    /\ genOut' = [genOut EXCEPT !.action = [a \in Accounts |-> "null"]]

\* executeAccountTrading up to the answer of getAccountActivePosition
ReadActivePosition(a) ==
    /\ genPc[a] = "called"
    /\ genOut' = [genOut EXCEPT !.activePosition[a] =
                      getAccountActivePosition(genOut.paper_trades, a)]
    /\ genPc' = [genPc EXCEPT ![a] = "positionRead"]
    /\ UNCHANGED genIn

\* executeAccountTrading from shouldBuy to its return
ExecuteAccountTrading(a) ==
    /\ genPc[a] = "positionRead"
    /\ genOut' = [genOut EXCEPT
           !.action[a] = TradeAction(genIn.signal[a], genOut.activePosition[a]),
           !.paper_trades =
               IF TradeAction(genIn.signal[a], genOut.activePosition[a]) = "null"
               THEN @
               ELSE saveAccountTrade(@, a,
                        TradeAction(genIn.signal[a], genOut.activePosition[a]),
                        genOut.activePosition[a], genIn.cycle)]
    /\ genPc' = [genPc EXCEPT ![a] = "returned"]
    /\ UNCHANGED genIn

\* a query of the call throws before the INSERT: the catch returns the error
AccountTradingThrows(a) ==
    /\ genPc[a] \in {"called", "positionRead"}
    /\ genOut' = [genOut EXCEPT !.action[a] = "error"]
    /\ genPc' = [genPc EXCEPT ![a] = "returned"]
    /\ UNCHANGED genIn

SpecTradeInit == TradeInit /\ OthersIdle

SpecTradeNext ==
    /\ \/ ExecuteMultiAccountTrading
       \/ \E a \in Accounts : ReadActivePosition(a)
       \/ \E a \in Accounts : ExecuteAccountTrading(a)
       \/ \E a \in Accounts : AccountTradingThrows(a)
    /\ UNCHANGED <<convVars, allVars, haVars, lupVars>>

SpecTrade == SpecTradeInit /\ [][SpecTradeNext]_vars

InTrading == DOMAIN genPc = Accounts

\* buy rows of the account before row i that no earlier sell row has sold
OpenBefore(trades, i) == {b \in 1..(i - 1) : /\ trades[b].account_id = trades[i].account_id
                                             /\ trades[b].trade_type = "buy"
                                             /\ \A s \in 1..(i - 1) : trades[s].trade_type = "sell" => trades[s].position # b}

OpenPositions(trades, accountId) == {b \in RowsOf(trades, accountId, "buy") : \A s \in 1..Len(trades) : trades[s].trade_type = "sell" => trades[s].position # b}

OneTradePerCycle(trades) == \A i, j \in 1..Len(trades) : (trades[i].account_id = trades[j].account_id /\ trades[i].cycle = trades[j].cycle) => i = j

BuyOnlyWhenFlat(trades) == \A i \in 1..Len(trades) : trades[i].trade_type = "buy" => OpenBefore(trades, i) = {}

SellClosesLatestBuy(trades) == \A i \in 1..Len(trades) : trades[i].trade_type = "sell" => (OpenBefore(trades, i) = {trades[i].position} /\ trades[i].position = Latest(BuysSince(SubSeq(trades, 1, i - 1), trades[i].account_id, 0)))

\* C30: over any sequence of cycles every account trades at most once per
\* cycle, a BUY is inserted only while the account has no open position and
\* a SELL only while it has one, so no account ever has two open positions,
\* and every SELL sells the position opened by the account's latest BUY;
\* a call never takes the buy branch while it holds an active position.
C30_OnePositionPerAccount ==
    InTrading =>
        /\ OneTradePerCycle(genOut.paper_trades)
        /\ BuyOnlyWhenFlat(genOut.paper_trades)
        /\ SellClosesLatestBuy(genOut.paper_trades)
        /\ \A a \in Accounts :
               /\ Cardinality(OpenPositions(genOut.paper_trades, a)) <= 1
               /\ genOut.action[a] = "buy" => ~Truthy(genOut.activePosition[a])
               /\ genOut.action[a] = "sell" => Truthy(genOut.activePosition[a])

\* an account has bought, sold and bought again over three cycles
C30_Witness ==
    /\ InTrading
    /\ genIn.cycle = MaxCycles
    /\ \E a \in Accounts :
           /\ genOut.action[a] = "buy"
           /\ Cardinality(RowsOf(genOut.paper_trades, a, "buy")) = 2
           /\ Cardinality(RowsOf(genOut.paper_trades, a, "sell")) = 1
           /\ Cardinality(OpenPositions(genOut.paper_trades, a)) = 1

====
